---- MODULE Spec2Model ----
(***************************************************************************)
(* A model of mabel's record containers:                                   *)
(*   - DictSet (mabel/data/internals/dictset.py), the record stream with   *)
(*     the three storage classes NO_PERSISTANCE, MEMORY and DISK;          *)
(*   - DiskIterator (mabel/data/internals/disk_iterator.py), the           *)
(*     newline-delimited JSON scratch file behind the DISK class;          *)
(*   - Relation (mabel/data/internals/relation.py), the tuple table.       *)
(*                                                                         *)
(* Records are functions from attribute names to small integers.  The     *)
(* scratch file is a sequence of bytes: orjson.dumps is modelled by the    *)
(* bytes it writes and orjson.loads by a parser of those bytes.            *)
(***************************************************************************)
EXTENDS Integers, Sequences, FiniteSets, TLC

VARIABLES
    storage_class,  \* DictSet.storage_class
    iterKind,       \* what DictSet._iterator is: "gen", "list" or "disk"
    src,            \* the records behind a "gen" or "list" _iterator
    genPos,         \* how many records the generator behind "gen" has yielded
    file,           \* the bytes of DiskIterator.file ("disk")
    store,          \* the DiskIterator: its length, its file on disk, its exit hook
    trav,           \* the DumbIter objects handed out by DictSet.__iter__
    exhausted,      \* some DumbIter has raised StopIteration
    input,          \* the records given to the constructor
    logical,        \* the records the stream holds by contract
    last,           \* the last call on the stream and what it returned
    child,          \* the stream returned by the last query()
    groups,         \* what the last igroupby() emitted
    rel,            \* Relation.data
    relOut,         \* the Relation returned by the last Relation.distinct()
    relLast,        \* the last call on the Relation
    tok,            \* the Tokenizer: expression, tokens, token_types, i
    dnf             \* the last evaluation of a DNF filter on a record

dsvars  == <<storage_class, iterKind, src, genPos, file, store, trav, exhausted,
             input, logical, last, child, groups>>
relvars == <<rel, relOut, relLast>>
vars    == <<storage_class, iterKind, src, genPos, file, store, trav, exhausted,
             input, logical, last, child, groups, rel, relOut, relLast, tok, dnf>>

----------------------------------------------------------------------------
(* Bounds of the model *)

MaxLen  == 2    \* longest record sequence given to a DictSet
MaxRows == 3    \* longest tuple sequence given to a Relation
MaxDicts == 2   \* longest sequence of dictionaries given to a Relation
MaxVal  == 1    \* largest attribute value
MaxTrav == 2    \* DumbIter objects alive at once
MaxLocs == 2    \* positions given to one get_items or _inner_reader call
MaxExp  == 3    \* longest expression spelled from Chars
MaxClauses == 2 \* most clauses of a DNF filter

----------------------------------------------------------------------------
(* STORAGE_CLASS *)

NO_PERSISTANCE == 1
MEMORY         == 2
DISK           == 3
STORAGE_CLASS  == {NO_PERSISTANCE, MEMORY, DISK}

----------------------------------------------------------------------------
(* Records and sequences *)

Values  == 0..MaxVal
Records == {[a |-> v] : v \in Values} \cup {[b |-> 0]}

SeqsUpTo(S, n) == UNION {[1..k -> S] : k \in 0..n}

IsPrefix(s, t) == Len(s) <= Len(t) /\ SubSeq(t, 1, Len(s)) = s

Drop(s, n) == SubSeq(s, n + 1, Len(s))

----------------------------------------------------------------------------
(* orjson.dumps / orjson.loads on the records of the model, byte by byte:  *)
(* {"a":1} is 123 34 97 34 58 49 125.                                      *)

NL == 10

KeyOrder == <<"a", "b">>

KeyByte(k) == IF k = "a" THEN 97 ELSE 98

ByteKey(b) == IF b = 97 THEN "a" ELSE "b"

RECURSIVE DumpsPairs(_, _, _)
DumpsPairs(r, i, first) ==
    IF i > Len(KeyOrder) THEN <<>>
    ELSE IF KeyOrder[i] \in DOMAIN r
         THEN (IF first THEN <<>> ELSE <<44>>)
              \o <<34, KeyByte(KeyOrder[i]), 34, 58, 48 + r[KeyOrder[i]]>>
              \o DumpsPairs(r, i + 1, FALSE)
         ELSE DumpsPairs(r, i + 1, first)

Dumps(r) == <<123>> \o DumpsPairs(r, 1, TRUE) \o <<125>>

\* orjson.loads of one line; the trailing newline is skipped as whitespace
Loads(line) ==
    LET body == IF line # <<>> /\ line[Len(line)] = NL
                THEN SubSeq(line, 1, Len(line) - 1) ELSE line
        n    == (Len(body) - 1) \div 6
        keys == {ByteKey(body[3 + 6 * (i - 1)]) : i \in 1..n}
        at(k) == CHOOSE i \in 1..n : ByteKey(body[3 + 6 * (i - 1)]) = k
    IN  [k \in keys |-> body[6 + 6 * (at(k) - 1)] - 48]

----------------------------------------------------------------------------
(* DiskIterator *)

BUFFER_SIZE == 16 * 1024 * 1024

\* DiskIterator.__init__: the bytes the constructor leaves in the file
RECURSIVE DiskWrite(_, _, _)
DiskWrite(rows, buffer, written) ==
    IF rows = <<>>
    THEN (IF Len(buffer) > 0 THEN written \o buffer ELSE written)
    ELSE LET b == buffer \o Dumps(Head(rows)) \o <<NL>>
         IN  IF Len(b) > BUFFER_SIZE
             THEN DiskWrite(Tail(rows), <<>>, written \o b)
             ELSE DiskWrite(Tail(rows), b, written)

\* mmap.readline from byte offset off: up to and including the next newline
RECURSIVE LineEnd(_, _)
LineEnd(f, i) ==
    IF i > Len(f) THEN Len(f)
    ELSE IF f[i] = NL THEN i
    ELSE LineEnd(f, i + 1)

ReadLine(f, off) == SubSeq(f, off + 1, LineEnd(f, off + 1))

\* mmap.mmap(fileno, length=0) raises ValueError when the file is empty
MmapFails(f) == f = <<>>

\* DiskIterator._read_file run to its end from offset off
RECURSIVE ReadFile(_, _)
ReadFile(f, off) ==
    LET line == ReadLine(f, off)
    IN  IF line = <<>> THEN <<>>
        ELSE <<line>> \o ReadFile(f, off + Len(line))

\* DiskIterator._inner_reader() with no locations, run to its end
\* the loop "for self.length, row in enumerate(iterator)": what it leaves in
\* self.length, which is length before the loop and i at row i
RECURSIVE EnumerateLast(_, _, _)
EnumerateLast(rows, i, length) ==
    IF rows = <<>> THEN length
    ELSE EnumerateLast(Tail(rows), i + 1, i)

FullScan(f) == LET lines == ReadFile(f, 0)
               IN  [i \in 1..Len(lines) |-> Loads(lines[i])]

----------------------------------------------------------------------------
(* DictSet: construction *)

NoTrav == [st |-> "none", idx |-> 0, out |-> <<>>]

NoChild == [kind |-> "none", pred |-> {}, pos |-> 0, st |-> "none",
            items |-> <<>>, bytes |-> <<>>, out |-> <<>>, base |-> <<>>]

\* a call: its name, its argument, the storage class it found, its result (res,
\* and n for a number), and base, the records the source held when it was made
NoCall == [op |-> "none", arg |-> 0, col |-> "", sc |-> 0, res |-> "none",
           n |-> 0, base |-> <<>>, locs |-> <<>>, items |-> <<>>,
           other |-> [res |-> "none", n |-> 0]]

Call(op, arg, res) == [op |-> op, arg |-> arg, col |-> "", sc |-> storage_class,
                       res |-> res, n |-> 0, base |-> <<>>, locs |-> <<>>,
                       items |-> <<>>, other |-> [res |-> "none", n |-> 0]]

\* no DiskIterator was constructed
NoStore == [made |-> FALSE, length |-> 0, exists |-> FALSE, atexit |-> FALSE,
            exited |-> FALSE]

\* DiskIterator.__init__(iterator): length starts at -1, os.remove of the file
\* is registered with atexit, and the file is written
DiskIteratorInit(iterator) ==
    [made |-> TRUE, length |-> EnumerateLast(iterator, 0, -1), exists |-> TRUE,
     atexit |-> TRUE, exited |-> FALSE]

\* DictSet.__init__(iterator, storage_class=sc); kind says whether the
\* iterator given is a one-shot generator or a list
DictSetInit(iterator, kind, sc) ==
    /\ storage_class = sc
    /\ iterKind = (IF sc = MEMORY THEN "list" ELSE IF sc = DISK THEN "disk" ELSE kind)
    /\ src = (IF sc = DISK THEN <<>> ELSE iterator)
    /\ file = (IF sc = DISK THEN DiskWrite(iterator, <<>>, <<>>) ELSE <<>>)
    /\ store = (IF sc = DISK THEN DiskIteratorInit(iterator) ELSE NoStore)
    /\ genPos = 0

NoRelation == [made |-> FALSE, st |-> "none", pos |-> 0, hash_list |-> {},
               out |-> <<>>, base |-> <<>>, schema |-> <<>>, op |-> "none",
               res |-> "none", shares |-> FALSE]

\* a Relation: its data (tuples, or the dictionaries of a generator not yet
\* materialized), whether data is still a generator, its schema, and given,
\* kind and givenDicts, the constructor's data argument
NoRel == [data |-> <<>>, lazy |-> TRUE, dicts |-> FALSE, schema |-> <<>>,
          given |-> <<>>, kind |-> "gen", givenDicts |-> FALSE]

\* a call on the Relation: its name, its arguments, the Relation it found, and
\* whether it is a materialize that follows a materialize
NoRelCall == [op |-> "none", attributes |-> <<>>, was |-> NoRel, again |-> FALSE,
              n |-> 0, other |-> 0, res |-> "none", target |-> "", wasOut |-> <<>>]

\* no Tokenizer was constructed, no DNF filter was evaluated
NoTok == [made |-> FALSE, expression |-> <<>>, tokenized |-> FALSE, tokens |-> <<>>,
          token_types |-> <<>>, i |-> 0, op |-> "none", res |-> "none",
          value |-> <<>>, kind |-> "", was |-> 0, taken |-> <<>>]
NoDnf == [op |-> "none", expr |-> <<>>, record |-> <<>>, res |-> "none"]

\* no Relation in play
RelIdle ==
    /\ rel = NoRel
    /\ relOut = NoRelation
    /\ relLast = NoRelCall
    /\ tok = NoTok
    /\ dnf = NoDnf

Init ==
    /\ input \in SeqsUpTo(Records, MaxLen)
    /\ \E kind \in {"gen", "list"}, sc \in STORAGE_CLASS : DictSetInit(input, kind, sc)
    /\ trav = [t \in 1..MaxTrav |-> NoTrav]
    /\ exhausted = FALSE
    /\ logical = input
    /\ last = NoCall
    /\ child = NoChild
    /\ groups = <<>>
    /\ RelIdle

----------------------------------------------------------------------------
(* DictSet: traversal *)

\* what iterating self._iterator to its end yields in the current state
Remaining ==
    IF iterKind = "gen" THEN Drop(src, genPos)
    ELSE IF iterKind = "list" THEN src
    ELSE FullScan(file)

\* iterating self._iterator raises: a DiskIterator whose file cannot be mapped
ReadRaises == iterKind = "disk" /\ MmapFails(file)

\* the generator's position once something has iterated self._iterator to its end
Drained == IF iterKind = "gen" THEN Len(src) ELSE genPos

\* the records a stream-through stream still holds once its generator stands at p
Held(p) == IF iterKind = "gen" /\ storage_class = NO_PERSISTANCE
           THEN Drop(src, p) ELSE logical

\* DictSet.__iter__: DumbIter(self._iterator) calls iter() on the source
Iter(t) ==
    /\ trav' = [trav EXCEPT ![t] = [st |-> "open", idx |-> 0, out |-> <<>>]]
    /\ last' = Call("iter", 0, "ok")
    /\ UNCHANGED <<storage_class, iterKind, src, genPos, file, exhausted, input,
                   logical, child, groups>>
    /\ UNCHANGED <<store, relvars, tok, dnf>>

\* TravPos, were iter() to restart a generator as it restarts a list
TravPosOwn(t) == trav[t].idx

\* TravPos, were every DumbIter to read through one shared iterator
TravPosShared(t) == genPos

\* the position DumbIter t reads from: a generator is its own iterator, so every
\* DumbIter over it shares its position; a list or a DiskIterator gives each
\* DumbIter an iterator of its own
TravPos(t) == IF iterKind = "gen" THEN genPos ELSE trav[t].idx

\* DumbIter.__next__
DumbNext(t) ==
    /\ trav[t].st = "open"
    /\ LET p == TravPos(t) IN
       IF iterKind = "disk"
       THEN LET line == ReadLine(file, p) IN
            IF MmapFails(file)
            THEN /\ trav' = [trav EXCEPT ![t].st = "error"]
                 /\ exhausted' = exhausted
                 /\ last' = Call("next", 0, "ValueError")
            ELSE IF line = <<>>
            THEN /\ trav' = [trav EXCEPT ![t].st = "done"]
                 /\ exhausted' = TRUE
                 /\ last' = Call("next", 0, "StopIteration")
            ELSE /\ trav' = [trav EXCEPT ![t].idx = p + Len(line),
                                         ![t].out = @ \o <<Loads(line)>>]
                 /\ exhausted' = exhausted
                 /\ last' = Call("next", 0, "ok")
       ELSE IF p >= Len(src)
            THEN /\ trav' = [trav EXCEPT ![t].st = "done"]
                 /\ exhausted' = TRUE
                 /\ last' = Call("next", 0, "StopIteration")
            ELSE /\ trav' = [trav EXCEPT ![t].idx = p + 1,
                                         ![t].out = @ \o <<src[p + 1]>>]
                 /\ exhausted' = exhausted
                 /\ last' = Call("next", 0, "ok")
    /\ genPos' = (IF iterKind = "gen" /\ genPos < Len(src) THEN genPos + 1 ELSE genPos)
    /\ logical' = Held(genPos')
    /\ UNCHANGED <<storage_class, iterKind, src, file, input, child, groups>>
    /\ UNCHANGED <<store, relvars, tok, dnf>>

----------------------------------------------------------------------------
(* DictSet.persist *)

\* Persist, were the storage classes compared before the target is validated
PersistSameClassFirst(target) ==
    /\ IF storage_class = target
       THEN /\ last' = [Call("persist", target, "False") EXCEPT !.base = Remaining]
            /\ UNCHANGED <<storage_class, genPos>>
       ELSE IF target = NO_PERSISTANCE
       THEN /\ last' = [Call("persist", target, "InvalidArgument") EXCEPT !.base = Remaining]
            /\ UNCHANGED <<storage_class, genPos>>
       ELSE IF target = MEMORY /\ ReadRaises
       THEN /\ last' = [Call("persist", target, "ValueError") EXCEPT !.base = Remaining]
            /\ UNCHANGED <<storage_class, genPos>>
       ELSE IF target = MEMORY
       THEN /\ genPos' = Drained
            /\ storage_class' = MEMORY
            /\ last' = [Call("persist", target, "True") EXCEPT !.base = Remaining]
       ELSE /\ last' = [Call("persist", target, "AttributeError") EXCEPT !.base = Remaining]
            /\ UNCHANGED <<storage_class, genPos>>
    /\ UNCHANGED <<iterKind, src, file, trav, exhausted, input, logical, child, groups>>
    /\ UNCHANGED <<store, relvars, tok, dnf>>

Persist(target) ==
    /\ IF target = NO_PERSISTANCE
       THEN /\ last' = [Call("persist", target, "InvalidArgument") EXCEPT !.base = Remaining]
            /\ UNCHANGED <<storage_class, genPos>>
       ELSE IF storage_class = target
       THEN /\ last' = [Call("persist", target, "False") EXCEPT !.base = Remaining]
            /\ UNCHANGED <<storage_class, genPos>>
       ELSE IF target = MEMORY /\ ReadRaises
       THEN \* list(self._iterator) raises, the storage class is not yet assigned
            /\ last' = [Call("persist", target, "ValueError") EXCEPT !.base = Remaining]
            /\ UNCHANGED <<storage_class, genPos>>
       ELSE IF target = MEMORY
       THEN \* self._iterator == list(self._iterator): a comparison; the list is
            \* built, which runs a generator to its end, and then dropped;
            \* self._temporary_folder is None
            /\ genPos' = Drained
            /\ storage_class' = MEMORY
            /\ last' = [Call("persist", target, "True") EXCEPT !.base = Remaining]
       ELSE \* self._persist_to_disk() is no attribute of DictSet
            /\ last' = [Call("persist", target, "AttributeError") EXCEPT !.base = Remaining]
            /\ UNCHANGED <<storage_class, genPos>>
    /\ UNCHANGED <<iterKind, src, file, trav, exhausted, input, logical, child, groups>>
    /\ UNCHANGED <<store, relvars, tok, dnf>>

----------------------------------------------------------------------------
(* DictSet.count *)

Count ==
    /\ IF storage_class \in {MEMORY, DISK} /\ ReadRaises
       THEN /\ last' = [Call("count", 0, "ValueError") EXCEPT !.base = Remaining]
            /\ genPos' = genPos
       ELSE IF storage_class \in {MEMORY, DISK}
       THEN \* no _iterator has a __length__ attribute: reduce() over the source
            /\ last' = [Call("count", 0, "ok") EXCEPT !.n = Len(Remaining), !.base = Remaining]
            /\ genPos' = Drained
       ELSE /\ last' = [Call("count", 0, "ok") EXCEPT !.n = -1, !.base = Remaining]
            /\ genPos' = genPos
    /\ UNCHANGED <<storage_class, iterKind, src, file, trav, exhausted, input,
                   logical, child, groups>>
    /\ UNCHANGED <<store, relvars, tok, dnf>>

----------------------------------------------------------------------------
(* DiskIterator._inner_reader with locations *)

SeqMax(s) == CHOOSE m \in {s[i] : i \in DOMAIN s} : \A i \in DOMAIN s : s[i] <= m
SeqMin(s) == CHOOSE m \in {s[i] : i \in DOMAIN s} : \A i \in DOMAIN s : m <= s[i]
Elems(s)  == {s[i] : i \in DOMAIN s}

\* the loop over enumerate(reader, min_location): line i is decoded and yielded
\* when i is a location, and the loop returns after max_location; read is the
\* number of lines readline has returned by then
RECURSIVE ScanLines(_, _, _, _)
ScanLines(lines, i, locations, max_location) ==
    IF i >= Len(lines) THEN [items |-> <<>>, read |-> Len(lines)]
    ELSE IF i \in Elems(locations)
         THEN IF i = max_location
              THEN [items |-> <<Loads(lines[i + 1])>>, read |-> i + 1]
              ELSE LET rest == ScanLines(lines, i + 1, locations, max_location)
                   IN  [items |-> <<Loads(lines[i + 1])>> \o rest.items,
                        read  |-> rest.read]
         ELSE ScanLines(lines, i + 1, locations, max_location)

\* InnerReader, were the loop to return after the smallest location
InnerReaderToMin(f, locations) ==
    IF MmapFails(f) THEN [res |-> "ValueError", items |-> <<>>, read |-> 0]
    ELSE IF locations = <<>>
    THEN [res |-> "ok", items |-> FullScan(f), read |-> Len(ReadFile(f, 0))]
    ELSE LET lines == ReadFile(f, 0)
         IN  IF SeqMin(locations) > Len(lines)
             THEN [res |-> "RuntimeError", items |-> <<>>, read |-> Len(lines)]
             ELSE LET got == ScanLines(lines, SeqMin(locations), locations,
                                       SeqMin(locations))
                  IN  [res |-> "ok", items |-> got.items, read |-> got.read]

\* run to its end; next(reader) on a reader that has run out ends the generator
\* with RuntimeError
InnerReader(f, locations) ==
    IF MmapFails(f) THEN [res |-> "ValueError", items |-> <<>>, read |-> 0]
    ELSE IF locations = <<>>
    THEN [res |-> "ok", items |-> FullScan(f), read |-> Len(ReadFile(f, 0))]
    ELSE LET lines == ReadFile(f, 0)
         IN  IF SeqMin(locations) > Len(lines)
             THEN [res |-> "RuntimeError", items |-> <<>>, read |-> Len(lines)]
             ELSE LET got == ScanLines(lines, SeqMin(locations), locations,
                                       SeqMax(locations))
                  IN  [res |-> "ok", items |-> got.items, read |-> got.read]

----------------------------------------------------------------------------
(* DictSet.get_items, run to its end with the generator at gpos *)

\* "for i, r in self._iterator" from position p: each record is unpacked into
\* (i, r); a record of two keys unpacks into its keys, which are no location,
\* and any other record raises ValueError
RECURSIVE UnpackScan(_, _)
UnpackScan(rows, p) ==
    IF p >= Len(rows) THEN [res |-> "ok", pos |-> Len(rows)]
    ELSE IF Cardinality(DOMAIN rows[p + 1]) = 2 THEN UnpackScan(rows, p + 1)
    ELSE [res |-> "ValueError", pos |-> p + 1]

\* pos is where the call leaves the generator behind _iterator
GetItems(locations, gpos) ==
    IF storage_class = MEMORY \/ iterKind = "list"
    THEN IF locations = <<>>
         THEN [res |-> "ok", items |-> <<>>, pos |-> gpos]
         ELSE IF iterKind # "list"
         THEN [res |-> "TypeError", items |-> <<>>, pos |-> gpos]  \* no __getitem__
         ELSE IF \E j \in DOMAIN locations : locations[j] >= Len(src)
         THEN [res |-> "IndexError", items |-> <<>>, pos |-> gpos]
         ELSE [res |-> "ok",
               items |-> [j \in DOMAIN locations |-> src[locations[j] + 1]],
               pos |-> gpos]
    ELSE IF storage_class = DISK
    THEN LET got == InnerReader(file, locations)
         IN  [res |-> got.res, items |-> got.items, pos |-> gpos]
    ELSE LET got == UnpackScan(src, gpos)
         IN  [res |-> got.res, items |-> <<>>, pos |-> got.pos]

\* the positions callers ask for, one beyond the longest stream included
Locations == SeqsUpTo(0..MaxLen, MaxLocs)

\* no call is made on an object after __del__ or after the interpreter's exit
Live == last.op \notin {"__del__", "atexit"}

\* list(self.get_items(*locations))
GetItemsCall(locations) ==
    /\ Live
    /\ LET got == GetItems(locations, genPos)
       IN  /\ last' = [Call("get_items", 0, got.res) EXCEPT
                          !.locs = locations, !.items = got.items, !.base = Remaining]
           /\ genPos' = got.pos
    /\ logical' = Held(genPos')
    /\ UNCHANGED <<storage_class, iterKind, src, file, store, trav, exhausted, input,
                   child, groups>>
    /\ UNCHANGED <<relvars, tok, dnf>>

\* list(self._iterator._inner_reader(*locations)) on the DiskIterator
PositionalScan(locations) ==
    /\ Live
    /\ iterKind = "disk"
    /\ LET got == InnerReader(file, locations)
       IN  last' = [Call("_inner_reader", 0, got.res) EXCEPT
                      !.locs = locations, !.items = got.items, !.n = got.read,
                      !.base = Remaining]
    /\ UNCHANGED <<storage_class, iterKind, src, genPos, file, store, trav, exhausted,
                   input, logical, child, groups>>
    /\ UNCHANGED <<relvars, tok, dnf>>

\* DiskIterator.__len__
Length ==
    /\ Live
    /\ iterKind = "disk"
    /\ last' = [Call("__len__", 0, "ok") EXCEPT !.n = store.length, !.base = Remaining]
    /\ UNCHANGED <<storage_class, iterKind, src, genPos, file, store, trav, exhausted,
                   input, logical, child, groups>>
    /\ UNCHANGED <<relvars, tok, dnf>>

\* DictSet.__del__: self._temporary_folder is None, nothing is cleaned up
Del ==
    /\ Live
    /\ last' = [Call("__del__", 0, "ok") EXCEPT !.base = Remaining]
    /\ UNCHANGED <<storage_class, iterKind, src, genPos, file, store, trav, exhausted,
                   input, logical, child, groups>>
    /\ UNCHANGED <<relvars, tok, dnf>>

\* the interpreter exits: atexit runs os.remove(self.file)
AtExit ==
    /\ ~store.exited
    /\ store.atexit
    /\ store' = [store EXCEPT !.exists = FALSE, !.exited = TRUE]
    /\ last' = [Call("atexit", 0, IF store.exists THEN "ok" ELSE "FileNotFoundError")
                   EXCEPT !.base = Remaining]
    /\ UNCHANGED <<storage_class, iterKind, src, genPos, file, trav, exhausted,
                   input, logical, child, groups>>
    /\ UNCHANGED <<relvars, tok, dnf>>

----------------
(* DictSet.igroupby *)

\* mabel.data.internals.index.value_to_int: equal values give equal keys
ValueToInt(v) == v

\* builder: the (key, position) entries of the records that have the column
RECURSIVE BuildIndex(_, _, _)
BuildIndex(rows, i, column) ==
    IF i > Len(rows) THEN <<>>
    ELSE (IF column \in DOMAIN rows[i]
          THEN <<[val |-> ValueToInt(rows[i][column]), pos |-> i - 1]>>
          ELSE <<>>) \o BuildIndex(rows, i + 1, column)

\* group_keys: each key's original value, the last one written
GroupKey(rows, column, val) ==
    LET i == CHOOSE j \in DOMAIN rows :
                 /\ column \in DOMAIN rows[j]
                 /\ ValueToInt(rows[j][column]) = val
                 /\ \A k \in DOMAIN rows :
                        (k > j /\ column \in DOMAIN rows[k])
                            => ValueToInt(rows[k][column]) # val
    IN  rows[i][column]

\* list.sort(key=...) is stable
RECURSIVE InsertEntry(_, _)
InsertEntry(sorted, e) ==
    IF sorted = <<>> THEN <<e>>
    ELSE IF sorted[Len(sorted)].val <= e.val THEN Append(sorted, e)
    ELSE Append(InsertEntry(SubSeq(sorted, 1, Len(sorted) - 1), e), sorted[Len(sorted)])

RECURSIVE SortIndex(_)
SortIndex(s) ==
    IF s = <<>> THEN <<>>
    ELSE InsertEntry(SortIndex(SubSeq(s, 1, Len(s) - 1)), s[Len(s)])

None == [some |-> FALSE, v |-> 0]
Some(v) == [some |-> TRUE, v |-> v]
\* Python's truth value of last_value: None and 0 are false
Truthy(x) == x.some /\ x.v # 0

\* DictSet(self.get_items(...), storage_class=MEMORY)
MakeGroup(key, item_locations, gpos) ==
    LET got == GetItems(item_locations, gpos)
    IN  [res |-> got.res,
         group |-> [key |-> key, locs |-> item_locations, members |-> got.items]]

\* the loop over the sorted index and the yield after it
RECURSIVE EmitGroups(_, _, _, _, _, _, _, _)
EmitGroups(rows, column, index, i, last_value, item_locations, emitted, gpos) ==
    IF i > Len(index)
    THEN IF ~last_value.some
         THEN [res |-> "KeyError", groups |-> emitted]   \* group_keys[None]
         ELSE LET g == MakeGroup(GroupKey(rows, column, last_value.v),
                                 item_locations, gpos)
              IN  [res |-> g.res,
                   groups |-> IF g.res = "ok" THEN Append(emitted, g.group)
                              ELSE emitted]
    ELSE IF Truthy(last_value) /\ last_value.v # index[i].val
    THEN LET g == MakeGroup(GroupKey(rows, column, last_value.v),
                            item_locations, gpos)
         IN  IF g.res # "ok" THEN [res |-> g.res, groups |-> emitted]
             ELSE EmitGroups(rows, column, index, i + 1, Some(index[i].val),
                             <<index[i].pos>>, Append(emitted, g.group), gpos)
    ELSE EmitGroups(rows, column, index, i + 1, Some(index[i].val),
                    Append(item_locations, index[i].pos), emitted, gpos)

\* list(self.igroupby(group_by_column)): the generator run to its end
IGroupBy(column) ==
    LET rows == Remaining
        gpos == Drained
        got  == IF ReadRaises
                THEN [res |-> "ValueError", groups |-> <<>>]
                ELSE EmitGroups(rows, column, SortIndex(BuildIndex(rows, 1, column)),
                                1, None, <<>>, <<>>, gpos)
    IN  /\ groups' = got.groups
        /\ last' = [Call("igroupby", 0, got.res) EXCEPT !.base = rows, !.col = column]
        /\ genPos' = gpos
        /\ logical' = Held(gpos)
        /\ UNCHANGED <<storage_class, iterKind, src, file, trav, exhausted, input, child>>
        /\ UNCHANGED <<store, relvars, tok, dnf>>

----------------------------------------------------------------------------
(* DictSet.query, DictSet.filter, DictSet.dnf_filter *)

\* the predicates callers pass: "a >= v"; a predicate is the set of records
\* it holds for
Predicates == {{r \in Records : "a" \in DOMAIN r /\ r.a >= v} : v \in Values}

\* Expression(expression).evaluate(record)
Evaluate(q, record) == record \in q

\* _inner(dictset) run to its end over rows
RECURSIVE Inner(_, _)
Inner(rows, q) ==
    IF rows = <<>> THEN <<>>
    ELSE IF Evaluate(q, Head(rows)) THEN <<Head(rows)>> \o Inner(Tail(rows), q)
    ELSE Inner(Tail(rows), q)

\* the first index after p whose record satisfies q, 0 when there is none
RECURSIVE NextMatch(_, _, _)
NextMatch(rows, p, q) ==
    IF p >= Len(rows) THEN 0
    ELSE IF Evaluate(q, rows[p + 1]) THEN p + 1
    ELSE NextMatch(rows, p + 1, q)

\* DictSet(_inner(self._iterator), storage_class=self.storage_class): the
\* constructor of a MEMORY or DISK stream runs the generator to its end at once
Query(q) ==
    /\ IF storage_class = NO_PERSISTANCE
       THEN /\ child' = [NoChild EXCEPT !.kind = "gen", !.pred = q, !.st = "open",
                                        !.base = Remaining]
            /\ genPos' = genPos
            /\ last' = Call("query", 0, "stream")
       ELSE IF ReadRaises
       THEN /\ child' = NoChild
            /\ genPos' = genPos
            /\ last' = Call("query", 0, "ValueError")
       ELSE /\ child' = [NoChild EXCEPT
                   !.kind  = IF storage_class = MEMORY THEN "list" ELSE "disk",
                   !.pred  = q,
                   !.items = IF storage_class = MEMORY THEN Inner(Remaining, q) ELSE <<>>,
                   !.bytes = IF storage_class = DISK
                             THEN DiskWrite(Inner(Remaining, q), <<>>, <<>>) ELSE <<>>,
                   !.base  = Remaining]
            /\ genPos' = Drained
            /\ last' = [Call("query", 0, "stream") EXCEPT !.n = Len(Remaining)]
    /\ logical' = Held(genPos')
    /\ UNCHANGED <<storage_class, iterKind, src, file, trav, exhausted, input, groups>>
    /\ UNCHANGED <<store, relvars, tok, dnf>>

\* next() on the stream query() returned while it is a bare generator: the
\* generator pulls from the parent's _iterator until a record satisfies q
ChildNext ==
    /\ child.kind = "gen"
    /\ child.st = "open"
    /\ LET p == IF iterKind = "gen" THEN genPos ELSE child.pos
           m == NextMatch(src, p, child.pred)
           q == IF m = 0 THEN Len(src) ELSE m
       IN  /\ child' = [child EXCEPT
                   !.pos = IF iterKind = "gen" THEN 0 ELSE q,
                   !.st  = IF m = 0 THEN "done" ELSE "open",
                   !.out = IF m = 0 THEN @ ELSE Append(@, src[m])]
           /\ genPos' = (IF iterKind = "gen" THEN q ELSE genPos)
           /\ last' = Call("child_next", 0, IF m = 0 THEN "StopIteration" ELSE "ok")
    /\ logical' = Held(genPos')
    /\ UNCHANGED <<storage_class, iterKind, src, file, trav, exhausted, input, groups>>
    /\ UNCHANGED <<store, relvars, tok, dnf>>

\* the records the stream query() returned yields when traversed from its start
ChildRecords ==
    IF child.kind = "list" THEN child.items
    ELSE IF child.kind = "disk" THEN FullScan(child.bytes)
    ELSE child.out

\* DictSet(inner_select(self._iterator), storage_class=self.storage_class): as
\* in query(), the constructor of a MEMORY or DISK stream runs the generator
\* to its end; n is the number of records read by the time select() returns
Select ==
    /\ IF storage_class = NO_PERSISTANCE
       THEN /\ genPos' = genPos
            /\ last' = Call("select", 0, "stream")
       ELSE IF ReadRaises
       THEN /\ genPos' = genPos
            /\ last' = Call("select", 0, "ValueError")
       ELSE /\ genPos' = Drained
            /\ last' = [Call("select", 0, "stream") EXCEPT !.n = Len(Remaining)]
    /\ UNCHANGED <<storage_class, iterKind, src, file, trav, exhausted, input,
                   logical, child, groups>>
    /\ UNCHANGED <<store, relvars, tok, dnf>>

\* DictSet(inner_sampler, storage_class=self.storage_class): the function is
\* given uncalled, so list() or DiskIterator() of it raises TypeError and a
\* NO_PERSISTANCE stream is returned that holds the function
Sample ==
    /\ last' = Call("sample", 0, IF storage_class = NO_PERSISTANCE THEN "stream"
                                 ELSE "TypeError")
    /\ UNCHANGED <<storage_class, iterKind, src, genPos, file, trav, exhausted,
                   input, logical, child, groups>>
    /\ UNCHANGED <<store, relvars, tok, dnf>>

\* DictSet(inner_filter(predicate, self._iterator), self.storage_class):
\* storage_class is keyword-only in DictSet.__init__, the call raises TypeError
\* before any record is read
FilterCall(predicate) ==
    /\ last' = [Call("filter", 0, "TypeError") EXCEPT !.base = Remaining]
    /\ UNCHANGED <<storage_class, iterKind, src, genPos, file, trav, exhausted,
                   input, logical, child, groups>>
    /\ UNCHANGED <<store, relvars, tok, dnf>>

\* DictSet(Filters.filter_dictset(filter_set, self._iterator), self.storage_class)
DnfFilter(dnf_filters) ==
    /\ last' = [Call("dnf_filter", 0, "TypeError") EXCEPT !.base = Remaining]
    /\ UNCHANGED <<storage_class, iterKind, src, genPos, file, trav, exhausted,
                   input, logical, child, groups>>
    /\ UNCHANGED <<store, relvars, tok, dnf>>

----------------------------------------------------------------------------
(* DictSet.distinct *)

\* hash() of the bytes orjson.dumps gives
RECURSIVE BytesHash(_, _)
BytesHash(bytes, h) ==
    IF bytes = <<>> THEN h
    ELSE BytesHash(Tail(bytes), (h * 31 + Head(bytes)) % 8191)

CanonicalHash(item) == BytesHash(Dumps(item), 7)

\* do_dedupe(data) run to its end: a hash is put in hash_list only on the
\* branch taken when it is already there
RECURSIVE DoDedupe(_, _)
DoDedupe(data, hash_list) ==
    IF data = <<>> THEN <<>>
    ELSE LET hashed_item == CanonicalHash(Head(data))
         IN  IF hashed_item \notin hash_list
             THEN <<Head(data)>> \o DoDedupe(Tail(data), hash_list)
             ELSE DoDedupe(Tail(data), hash_list \cup {hashed_item})

\* DictSet(do_dedupe(self._iterator), self.storage_class): TypeError, as in filter()
Distinct ==
    /\ last' = [Call("distinct", 0, "TypeError") EXCEPT !.base = Remaining]
    /\ UNCHANGED <<storage_class, iterKind, src, genPos, file, trav, exhausted,
                   input, logical, child, groups>>
    /\ UNCHANGED <<store, relvars, tok, dnf>>

----------------------------------------------------------------------------
(* Relation: tuples, construction, materialize, distinct *)

\* CPython's hash of a small integer: hash(-1) is -2
PyHash(n) == IF n = -1 THEN -2 ELSE n

\* hash(item) of a tuple mixes the hashes of its fields
TupleHash(item) == [i \in DOMAIN item |-> PyHash(item[i])]

Tuples == {<<x, y>> : x \in {-2, -1, 0}, y \in Values}

\* a fixed DictSet, for the behaviours of a Relation
DictSetIdle ==
    /\ input = <<>>
    /\ DictSetInit(<<>>, "list", MEMORY)
    /\ trav = [t \in 1..MaxTrav |-> NoTrav]
    /\ exhausted = FALSE
    /\ logical = <<>>
    /\ last = NoCall
    /\ child = NoChild
    /\ groups = <<>>

\* Python values in the dictionaries given to a Relation
PyInt(n) == [type |-> "int", v |-> n]
PyStr(n) == [type |-> "str", v |-> n]
PyNone   == [type |-> "NoneType", v |-> 0]
PyValues == {PyInt(0), PyStr(0)}

Attributes == {"a", "b"}

\* a dictionary is the sequence of its items in insertion order
Dicts ==
    {<<>>}
    \cup {<<[k |-> x, v |-> v]>> : x \in Attributes, v \in PyValues}
    \cup {d \in {<<[k |-> x, v |-> v], [k |-> y, v |-> w]>> :
                     x \in Attributes, y \in Attributes,
                     v \in PyValues, w \in PyValues} : d[1].k # d[2].k}

PyTuples == {<<v, w>> : v \in PyValues, w \in PyValues}

\* dict.get(k): None when the key is missing
Get(row, k) ==
    IF \E i \in DOMAIN row : row[i].k = k
    THEN row[CHOOSE i \in DOMAIN row : row[i].k = k].v
    ELSE PyNone

\* mabel.data.types.PYTHON_TYPES.get(name, MABEL_TYPES.OTHER)
PythonType(name) ==
    IF name = "int" THEN "NUMERIC"
    ELSE IF name = "str" THEN "VARCHAR"
    ELSE "OTHER"

\* mabel.data.types.coerce_types: integers, strings and None are kept
CoerceTypes(value) == value

\* from_dictionaries.types(row): the keys of a dictionary are distinct, so every
\* key takes the branch "k not in response"
Types(row) ==
    [i \in DOMAIN row |-> [k |-> row[i].k, v |-> [type |-> PythonType(row[i].v.type)]]]

\* row -> tuple([coerce_types(row.get(k)) for k in self.schema.keys()])
AsTuple(row, schema) ==
    [j \in DOMAIN schema |-> CoerceTypes(Get(row, schema[j].k))]

\* FromDictionaries, were the rows taken from dicts after next(dicts) alone
FromDictionariesRest(dictionaries) ==
    LET schema == Types(Head(dictionaries))
    IN  [schema |-> schema,
         data   |-> [i \in DOMAIN Tail(dictionaries) |->
                        AsTuple(Tail(dictionaries)[i], schema)]]

\* Relation.from_dictionaries(dictionaries) with no schema argument:
\* first_dict = next(dicts) gives the schema, and the rows are first_dict
\* followed by the rest of dicts
FromDictionaries(dictionaries) ==
    LET schema == Types(Head(dictionaries))
    IN  [schema |-> schema,
         data   |-> [i \in DOMAIN dictionaries |-> AsTuple(dictionaries[i], schema)]]

\* Relation.__init__(data, schema=schema): a list is asked for data[0], so it is
\* not empty; a list of dictionaries goes through from_dictionaries, a list
\* of tuples is copied, anything else is kept as it is
RelationInit(data, kind, dicts, schema) ==
    IF kind = "list" /\ dicts
    THEN [data |-> FromDictionaries(data).data, lazy |-> FALSE, dicts |-> FALSE,
          schema |-> FromDictionaries(data).schema, given |-> data, kind |-> kind,
          givenDicts |-> dicts]
    ELSE [data |-> data, lazy |-> kind # "list", dicts |-> dicts, schema |-> schema,
          given |-> data, kind |-> kind, givenDicts |-> dicts]

\* a schema entry with its type alone, and one with the statistics as well
TypeOnly(t) == [type |-> t]
WithStatistics(t) == [type |-> t, min |-> 0, max |-> 0, count |-> 0, unique |-> 0,
                      nullable |-> FALSE]

\* the schemas callers pass with schema=: none, or one for tuples (a, b)
SuppliedSchemas ==
    {<<>>,
     <<[k |-> "a", v |-> TypeOnly("NUMERIC")], [k |-> "b", v |-> TypeOnly("VARCHAR")]>>,
     <<[k |-> "a", v |-> WithStatistics("NUMERIC")],
       [k |-> "b", v |-> WithStatistics("VARCHAR")]>>}

InitSchema ==
    /\ DictSetIdle
    /\ \E kind \in {"list", "gen"}, dicts \in BOOLEAN, schema \in SuppliedSchemas :
         \E data \in (IF dicts THEN SeqsUpTo(Dicts, MaxDicts)
                                ELSE SeqsUpTo(PyTuples, MaxDicts)) :
           /\ (kind = "list" => data # <<>>)
           /\ (dicts => schema = <<>>)
           /\ rel = RelationInit(data, kind, dicts, schema)
    /\ relOut = NoRelation
    /\ relLast = NoRelCall
    /\ tok = NoTok
    /\ dnf = NoDnf

InitRel ==
    /\ DictSetIdle
    /\ \E data \in SeqsUpTo(Tuples, MaxRows), lazy \in BOOLEAN :
           /\ (~lazy => data # <<>>)
           /\ rel = RelationInit(data, IF lazy THEN "gen" ELSE "list", FALSE, <<>>)
    /\ relOut = NoRelation
    /\ relLast = NoRelCall
    /\ tok = NoTok
    /\ dnf = NoDnf

RelCall(op) == [op |-> op, attributes |-> <<>>, was |-> rel,
                again |-> op = "materialize" /\ relLast.op = op,
                n |-> 0, other |-> 0, res |-> "ok", target |-> "source",
                wasOut |-> relOut.schema]

\* Materialized, were the list built from the generator on every call
MaterializedFromSource(r) ==
    IF ~r.lazy THEN [r EXCEPT !.data = <<>>]
    ELSE IF r.dicts /\ Len(r.data) >= 1
    THEN [r EXCEPT !.data = FromDictionaries(r.data).data, !.lazy = FALSE,
                   !.dicts = FALSE, !.schema = FromDictionaries(r.data).schema]
    ELSE [r EXCEPT !.lazy = FALSE, !.dicts = FALSE]

\* Relation.materialize: list(self.data) unless data is a list already, then
\* from_dictionaries when the first item is a dictionary
Materialized(r) ==
    IF r.dicts /\ Len(r.data) >= 1
    THEN [r EXCEPT !.data = FromDictionaries(r.data).data, !.lazy = FALSE,
                   !.dicts = FALSE, !.schema = FromDictionaries(r.data).schema]
    ELSE [r EXCEPT !.lazy = FALSE, !.dicts = FALSE]

RelMaterialize ==
    /\ rel' = Materialized(rel)
    /\ relLast' = RelCall("materialize")
    /\ UNCHANGED relOut
    /\ UNCHANGED <<dsvars, tok, dnf>>

\* the predicates callers pass to apply_selection: a predicate is the set of
\* tuples it holds for
TuplePredicates == {PyTuples, {t \in PyTuples : t[1] = PyInt(0)}}

\* mabel.data.internals.dnf_filters.DnfFilters: whether the filter keeps a row
Applies(predicate, row) == row \in predicate

\* Relation.apply_selection(predicate), and the Relation it returns read to its
\* end: a new schema of the types alone, and the rows the filter keeps; the
\* filter reads a row by column position, which on a dictionary of a generator
\* not yet materialized raises KeyError
ApplySelection(predicate) ==
    LET new_schema == [j \in DOMAIN rel.schema |->
                          [k |-> rel.schema[j].k,
                           v |-> [type |-> rel.schema[j].v.type]]]
        Keeps(row) == Applies(predicate, row)
        fails == rel.dicts /\ rel.data # <<>>
    IN  /\ relOut' = [NoRelation EXCEPT !.made = TRUE, !.st = "done",
                                        !.out = IF fails THEN <<>>
                                                ELSE SelectSeq(rel.data, Keeps),
                                        !.base = rel.data, !.schema = new_schema,
                                        !.op = "selection",
                                        !.res = IF fails THEN "KeyError" ELSE "ok"]
        /\ rel' = IF ~rel.lazy THEN rel
                  ELSE IF fails THEN [rel EXCEPT !.data = Tail(@)]
                  ELSE [rel EXCEPT !.data = <<>>]
        /\ relLast' = RelCall("selection")
        /\ UNCHANGED <<dsvars, tok, dnf>>

\* the keys of {k: ... for k in attributes}: each once, in order of first
\* appearance
RECURSIVE DictKeys(_, _)
DictKeys(attributes, seen) ==
    IF attributes = <<>> THEN <<>>
    ELSE IF Head(attributes) \in seen THEN DictKeys(Tail(attributes), seen)
    ELSE <<Head(attributes)>> \o DictKeys(Tail(attributes), seen \cup {Head(attributes)})

\* self.schema.get(k): None for an attribute the schema does not have
SchemaGet(schema, k) ==
    IF \E j \in DOMAIN schema : schema[j].k = k
    THEN schema[CHOOSE j \in DOMAIN schema : schema[j].k = k].v
    ELSE [none |-> TRUE]

\* attribute_indices: the indices of the schema's attributes that are in
\* attributes, in the order of the schema (here 1-based)
AttributeIndices(schema, attributes) ==
    LET Asked(j) == schema[j].k \in Elems(attributes)
    IN  SelectSeq([j \in DOMAIN schema |-> j], Asked)

\* the lists callers pass to apply_projection; a bare string is the list of it
AttributeLists ==
    {<<>>, <<"a">>, <<"b">>, <<"a", "b">>, <<"b", "a">>, <<"c", "a">>, <<"a", "a">>}

\* Relation.apply_projection(attributes), and the Relation it returns read to
\* its end; tup[indice] on a dictionary of a generator not yet materialized
\* raises KeyError
ApplyProjection(attributes) ==
    LET keys == DictKeys(attributes, {})
        new_schema == [j \in DOMAIN keys |->
                          [k |-> keys[j], v |-> SchemaGet(rel.schema, keys[j])]]
        attribute_indices == AttributeIndices(rel.schema, attributes)
        fails == rel.dicts /\ rel.data # <<>> /\ attribute_indices # <<>>
    IN  /\ relOut' = [NoRelation EXCEPT
                        !.made = TRUE, !.st = "done",
                        !.out = IF fails THEN <<>>
                                ELSE [i \in DOMAIN rel.data |->
                                        [n \in DOMAIN attribute_indices |->
                                            rel.data[i][attribute_indices[n]]]],
                        !.base = rel.data, !.schema = new_schema,
                        !.op = "projection",
                        !.res = IF fails THEN "KeyError" ELSE "ok"]
        /\ rel' = IF ~rel.lazy THEN rel
                  ELSE IF fails THEN [rel EXCEPT !.data = Tail(@)]
                  ELSE [rel EXCEPT !.data = <<>>]
        /\ relLast' = [RelCall("projection") EXCEPT !.attributes = attributes]
        /\ UNCHANGED <<dsvars, tok, dnf>>

\* Registered, were a hash put in hash_list only when it is there already
RegisteredOnRepeat(hash_list, hashed_item) == hash_list

\* hash_list[hashed_item] = True, on the branch of a hash not seen before
Registered(hash_list, hashed_item) == hash_list \cup {hashed_item}

\* the first index after p whose tuple's hash is not in hash_list, 0 if none
RECURSIVE NextUnseen(_, _, _)
NextUnseen(data, p, hash_list) ==
    IF p >= Len(data) THEN 0
    ELSE IF TupleHash(data[p + 1]) \notin hash_list THEN p + 1
    ELSE NextUnseen(data, p + 1, hash_list)

\* Relation.distinct: materialize, then Relation(do_dedupe(self.data), schema=...)
RelDistinct ==
    /\ rel' = Materialized(rel)
    /\ relOut' = [NoRelation EXCEPT !.made = TRUE, !.st = "open",
                                    !.base = Materialized(rel).data,
                                    !.schema = Materialized(rel).schema,
                                    !.op = "distinct", !.shares = TRUE]
    /\ relLast' = RelCall("distinct")
    /\ UNCHANGED <<dsvars, tok, dnf>>

\* next() on the data of the Relation distinct() returned: do_dedupe runs to its
\* next yield
RelOutNext ==
    /\ relOut.made /\ relOut.op = "distinct"
    /\ relOut.st = "open"
    /\ LET m == NextUnseen(relOut.base, relOut.pos, relOut.hash_list)
       IN  relOut' =
             IF m = 0
             THEN [relOut EXCEPT !.st = "done", !.pos = Len(relOut.base)]
             ELSE [relOut EXCEPT
                     !.pos = m,
                     !.hash_list = Registered(@, TupleHash(relOut.base[m])),
                     !.out = Append(@, relOut.base[m])]
    /\ relLast' = RelCall("next")
    /\ UNCHANGED rel
    /\ UNCHANGED <<dsvars, tok, dnf>>

\* Relation.sample: Relation(inner_sampler(self.data), schema=self.schema);
\* nothing is read until the Relation returned is
RelSample ==
    /\ relOut' = [NoRelation EXCEPT !.made = TRUE, !.st = "open", !.base = rel.data,
                                    !.schema = rel.schema, !.op = "sample",
                                    !.shares = TRUE]
    /\ relLast' = RelCall("sample")
    /\ UNCHANGED rel
    /\ UNCHANGED <<dsvars, tok, dnf>>

\* next() on the data of the Relation sample() returned, as far as the next
\* row: take says whether the random value selects it; a generator in the
\* source's data is the one inner_sampler reads
RelSampleNext(take) ==
    /\ relOut.made /\ relOut.op = "sample"
    /\ relOut.st = "open"
    /\ IF relOut.pos >= Len(relOut.base)
       THEN /\ relOut' = [relOut EXCEPT !.st = "done"]
            /\ UNCHANGED rel
       ELSE /\ relOut' = [relOut EXCEPT
                              !.pos = @ + 1,
                              !.out = IF take THEN Append(@, relOut.base[relOut.pos + 1])
                                      ELSE @]
            /\ rel' = IF rel.lazy THEN [rel EXCEPT !.data = Drop(relOut.base, relOut.pos + 1)]
                      ELSE rel
    /\ relLast' = RelCall("next")
    /\ UNCHANGED <<dsvars, tok, dnf>>

\* the names callers rename to
NewNames == {"b", "c"}

\* schema[new_name] = schema.pop(current_name) on a schema that has
\* current_name: the entry is taken out, and put under new_name where a dict
\* puts a key: in the place of an entry of that name, else last
Renamed(schema, current_name, new_name) ==
    LET j    == CHOOSE i \in DOMAIN schema : schema[i].k = current_name
        rest == SubSeq(schema, 1, j - 1) \o SubSeq(schema, j + 1, Len(schema))
    IN  IF \E i \in DOMAIN rest : rest[i].k = new_name
        THEN [i \in DOMAIN rest |-> IF rest[i].k = new_name
                                    THEN [k |-> new_name, v |-> schema[j].v]
                                    ELSE rest[i]]
        ELSE Append(rest, [k |-> new_name, v |-> schema[j].v])

\* rename_attribute(current_name, new_name) on the Relation, or on the
\* Relation distinct() or sample() returned: the schema renamed is one dict,
\* which both hold when one was constructed with schema=self.schema of the other
RenameAttribute(target, current_name, new_name) ==
    /\ target = "derived" => relOut.made
    /\ LET schema == IF target = "source" THEN rel.schema ELSE relOut.schema
           found  == \E i \in DOMAIN schema : schema[i].k = current_name
           both   == relOut.made /\ relOut.shares
       IN  /\ rel' = IF found /\ (target = "source" \/ both)
                     THEN [rel EXCEPT !.schema = Renamed(schema, current_name, new_name)]
                     ELSE rel
           /\ relOut' = IF found /\ (target = "derived" \/ both)
                        THEN [relOut EXCEPT
                                  !.schema = Renamed(schema, current_name, new_name)]
                        ELSE relOut
           /\ relLast' = [RelCall("rename_attribute") EXCEPT
                              !.attributes = <<current_name, new_name>>,
                              !.target = target,
                              !.res = IF found THEN "ok" ELSE "KeyError"]
    /\ UNCHANGED <<dsvars, tok, dnf>>

----------------------------------------------------------------------------
(* Content hash: DictSet.__hash__ and Relation.__hash__ *)

\* the width the library hashes are kept to here
HASH_BITS == 16

\* the default of the seed parameter
SEED == 703115

\* x ^ y on non-negative integers
RECURSIVE Xor(_, _)
Xor(x, y) ==
    IF x = 0 THEN y
    ELSE IF y = 0 THEN x
    ELSE (((x % 2) + (y % 2)) % 2) + 2 * Xor(x \div 2, y \div 2)

\* XorReduce, were the hashes chained in the order they arrive
RECURSIVE ChainReduce(_, _)
ChainReduce(hashed, seed) ==
    IF hashed = <<>> THEN seed
    ELSE ChainReduce(Tail(hashed), (seed * 31 + Head(hashed)) % (2 ^ HASH_BITS))

\* reduce(lambda x, y: x ^ y, hashed, seed)
RECURSIVE XorReduce(_, _)
XorReduce(hashed, seed) ==
    IF hashed = <<>> THEN seed
    ELSE XorReduce(Tail(hashed), Xor(seed, Head(hashed)))

\* cityhash.CityHash32(bytes): a hash of the bytes
CityHash32(bytes) == BytesHash(bytes, 0) % (2 ^ HASH_BITS)

\* the decimal digits of a non-negative integer, as bytes
RECURSIVE Digits(_)
Digits(n) == IF n < 10 THEN <<48 + n>> ELSE Digits(n \div 10) \o <<48 + (n % 10)>>

\* str(v) of an integer, as bytes
Str(v) == IF v < 0 THEN <<45>> \o Digits(-v) ELSE Digits(v)

\* sip(v): siphash("TheApolloMission", str(v)), a hash of the text
Sip(v) == BytesHash(Str(v), 5) % (2 ^ HASH_BITS)

\* sip_tuple(tup)
SipTuple(tup) == XorReduce([i \in DOMAIN tup |-> Sip(tup[i])], SEED)

\* Relation.__hash__ over the tuples data yields
RelationHash(data) == XorReduce([i \in DOMAIN data |-> SipTuple(data[i])], SEED)

\* DictSet.__hash__ over the records _iterator yields
DictSetHash(rows) ==
    XorReduce([i \in DOMAIN rows |-> CityHash32(Dumps(rows[i]))], SEED)

\* the permutations of 1..n, and a sequence permuted
Perms(n) == {p \in [1..n -> 1..n] : \A i, j \in 1..n : p[i] = p[j] => i = j}
Permute(s, p) == [i \in DOMAIN s |-> s[p[i]]]

\* hash(DictSet(iterator, storage_class=sc)): a DISK stream hashes what its
\* file reads back
FreshHash(iterator, sc) ==
    IF sc = DISK /\ MmapFails(DiskWrite(iterator, <<>>, <<>>))
    THEN [res |-> "ValueError", n |-> 0]
    ELSE IF sc = DISK
    THEN [res |-> "ok", n |-> DictSetHash(FullScan(DiskWrite(iterator, <<>>, <<>>)))]
    ELSE [res |-> "ok", n |-> DictSetHash(iterator)]

\* hash(self), and hash of a DictSet of the same storage class built over the
\* same records in the order perm gives
Hash(perm) ==
    /\ perm \in Perms(Len(Remaining))
    /\ IF ReadRaises
       THEN /\ last' = [Call("__hash__", 0, "ValueError") EXCEPT
                            !.base = Remaining,
                            !.other = FreshHash(Permute(Remaining, perm), storage_class)]
            /\ genPos' = genPos
       ELSE /\ last' = [Call("__hash__", 0, "ok") EXCEPT
                            !.n = DictSetHash(Remaining), !.base = Remaining,
                            !.other = FreshHash(Permute(Remaining, perm), storage_class)]
            /\ genPos' = Drained
    /\ UNCHANGED <<storage_class, iterKind, src, file, trav, exhausted, input,
                   logical, child, groups>>
    /\ UNCHANGED <<store, relvars, tok, dnf>>

\* hash(self) of a Relation, and hash of a Relation over the same tuples in
\* the order perm gives; a generator in data is left exhausted
RelHash(perm) ==
    /\ ~rel.dicts
    /\ perm \in Perms(Len(rel.data))
    /\ relLast' = [RelCall("__hash__") EXCEPT
                       !.n = RelationHash(rel.data),
                       !.other = RelationHash(Permute(rel.data, perm))]
    /\ rel' = IF rel.lazy THEN [rel EXCEPT !.data = <<>>] ELSE rel
    /\ UNCHANGED relOut
    /\ UNCHANGED <<dsvars, tok, dnf>>

----------------------------------------------------------------------------
(* Tokenizer (utils/token_labeler.py) *)

\* text is a sequence of one-character strings
LOWER == <<"a", "b", "c", "d", "e", "f", "g", "h", "i", "j", "k", "l", "m", "n", "o", "p", "q", "r", "s", "t", "u", "v", "w", "x", "y", "z">>
UPPER == <<"A", "B", "C", "D", "E", "F", "G", "H", "I", "J", "K", "L", "M", "N", "O", "P", "Q", "R", "S", "T", "U", "V", "W", "X", "Y", "Z">>
DIGITS == {"0", "1", "2", "3", "4", "5", "6", "7", "8", "9"}
\* the character U+0060, which cannot be written in a string here
BACKTICK == "backtick"
QUOTES == {"\"", "'", BACKTICK}

\* str.upper() of one character, and of a text
Upper(c) ==
    IF \E i \in DOMAIN LOWER : LOWER[i] = c
    THEN UPPER[CHOOSE i \in DOMAIN LOWER : LOWER[i] = c]
    ELSE c
ToUpper(s) == [i \in DOMAIN s |-> Upper(s[i])]

IsLetter(c) == \E i \in DOMAIN LOWER : LOWER[i] = c \/ UPPER[i] = c

\* the classes \w and \s of the regular expressions
IsWord(c) == IsLetter(c) \/ c \in DIGITS \/ c = "_"
IsSpace(c) == c = " "

\* the keys of FUNCTIONS and of AGGREGATORS, in order
FUNCTIONS == <<<<"Y", "E", "A", "R">>>>
AGGREGATORS == <<<<"M", "A", "X">>>>

\* the keys of OPERATORS, in order
OPERATORS ==
    <<<<"<", ">">>,
      <<">", "=">>,
      <<"<", "=">>,
      <<">">>,
      <<"<">>,
      <<"=", "=">>,
      <<"!", "=">>,
      <<"=">>,
      <<"I", "S", " ", "N", "O", "T">>,
      <<"I", "S">>,
      <<"N", "O", "T", " ", "L", "I", "K", "E">>,
      <<"L", "I", "K", "E">>,
      <<"I", "N">>,
      <<"C", "O", "N", "T", "A", "I", "N", "S">>>>

\* item.replace(" ", "").isalpha()
IsAlpha(item) ==
    /\ \E i \in DOMAIN item : item[i] # " "
    /\ \A i \in DOMAIN item : item[i] = " " \/ IsLetter(item[i])

\* build_splitter: the alternatives of the splitting expression in order, each
\* with whether it stands between two \b
Keywords ==
    [i \in DOMAIN FUNCTIONS |-> [text |-> FUNCTIONS[i], word |-> TRUE]]
    \o [i \in DOMAIN AGGREGATORS |-> [text |-> AGGREGATORS[i], word |-> TRUE]]
    \o [i \in DOMAIN OPERATORS |-> [text |-> OPERATORS[i], word |-> IsAlpha(OPERATORS[i])]]
    \o [i \in 1..13 |->
          [text |-> <<<<"A", "N", "D">>,
                    <<"O", "R">>,
                    <<"N", "O", "T">>,
                    <<"S", "E", "L", "E", "C", "T">>,
                    <<"F", "R", "O", "M">>,
                    <<"W", "H", "E", "R", "E">>,
                    <<"L", "I", "M", "I", "T">>,
                    <<"G", "R", "O", "U", "P", "\\s", "B", "Y">>,
                    <<"O", "R", "D", "E", "R", " ", "B", "Y">>,
                    <<"D", "I", "S", "T", "I", "N", "C", "T">>,
                    <<"A", "S", "C">>,
                    <<"D", "E", "S", "C">>,
                    <<"I", "N">>>>[i],
           word |-> TRUE]]
    \o [i \in 1..6 |->
          [text |-> <<<<"(">>, <<")">>, <<"[">>, <<"]">>, <<",">>, <<"*">>>>[i],
           word |-> FALSE]]

\* \b just before position p of exp
Boundary(exp, p) ==
    (p - 1 \in DOMAIN exp /\ IsWord(exp[p - 1])) # (p \in DOMAIN exp /\ IsWord(exp[p]))

\* the alternative kw matches exp at position p, letter case ignored
MatchAt(exp, p, kw) ==
    LET n == Len(kw.text) IN
    /\ p + n - 1 <= Len(exp)
    /\ \A i \in 1..n : IF kw.text[i] = "\\s" THEN IsSpace(exp[p + i - 1])
                                             ELSE Upper(exp[p + i - 1]) = kw.text[i]
    /\ kw.word => (Boundary(exp, p) /\ Boundary(exp, p + n))

\* build_splitter().split(exp) from position p on, start being where the
\* text not yet emitted begins: the leftmost match of the first alternative
\* that matches there ends a fragment and is kept as a fragment itself
RECURSIVE SplitFrom(_, _, _)
SplitFrom(exp, p, start) ==
    IF p > Len(exp) THEN <<SubSeq(exp, start, Len(exp))>>
    ELSE LET hits == {k \in DOMAIN Keywords : MatchAt(exp, p, Keywords[k])} IN
         IF hits = {} THEN SplitFrom(exp, p + 1, start)
         ELSE LET n == Len(Keywords[CHOOSE k \in hits : \A j \in hits : k <= j].text)
              IN  <<SubSeq(exp, start, p - 1), SubSeq(exp, p, p + n - 1)>>
                      \o SplitFrom(exp, p + n, p + n)

\* str.strip()
RECURSIVE Strip(_)
Strip(s) ==
    IF s # <<>> /\ IsSpace(s[1]) THEN Strip(Tail(s))
    ELSE IF s # <<>> /\ IsSpace(s[Len(s)]) THEN Strip(SubSeq(s, 1, Len(s) - 1))
    ELSE s

\* Tokenizer._fix_special_chars(tokens) run to its end: out is what it has
\* yielded, looking_for_end_char is "" for None, and open is the quote it is
\* still looking for when the fragments run out
RECURSIVE FixSpecialChars(_, _, _, _)
FixSpecialChars(tokens, builder, looking_for_end_char, out) ==
    IF tokens = <<>> THEN [res |-> "ok", tokens |-> out, open |-> looking_for_end_char]
    ELSE LET token == Head(tokens)
             st    == Strip(token)
         IN  IF Len(st) = 0
             THEN FixSpecialChars(Tail(tokens), builder, looking_for_end_char, out)
             ELSE IF looking_for_end_char = "" /\ st[1] \notin QUOTES
             THEN FixSpecialChars(Tail(tokens), builder, looking_for_end_char,
                                  Append(out, token))
             ELSE IF st[1] \in QUOTES /\ st[Len(st)] = st[1] /\ Len(st) > 1
             THEN FixSpecialChars(Tail(tokens), builder, looking_for_end_char,
                                  Append(out, token))
             ELSE IF st[Len(st)] = looking_for_end_char
             THEN FixSpecialChars(Tail(tokens), <<>>, "", Append(out, builder \o token))
             ELSE IF st[1] \in QUOTES /\ (st[Len(st)] # st[1] \/ Len(st) = 1)
             THEN FixSpecialChars(Tail(tokens), token, st[1], out)
             ELSE IF looking_for_end_char # ""
             THEN FixSpecialChars(Tail(tokens), builder \o token,
                                  looking_for_end_char, out)
             ELSE [res |-> "TokenError", tokens |-> out, open |-> looking_for_end_char]

\* mabel.utils.dates.parse_iso: a date yyyy-mm-dd is parsed, other text is not
ParseIso(text) ==
    /\ Len(text) = Len(<<"y", "y", "y", "y", "-", "m", "m", "-", "d", "d">>)
    /\ \A i \in DOMAIN text :
           IF <<"y", "y", "y", "y", "-", "m", "m", "-", "d", "d">>[i] = "-"
           THEN text[i] = "-" ELSE text[i] \in DIGITS

\* a text without its sign
Unsigned(s) == IF s # <<>> /\ s[1] \in {"+", "-"} THEN Tail(s) ELSE s

\* fastnumbers.isint(token)
IsInt(token) ==
    /\ Unsigned(token) # <<>>
    /\ \A i \in DOMAIN Unsigned(token) : Unsigned(token)[i] \in DIGITS

\* digits with at most one decimal point among them
IsDecimal(u) ==
    /\ \E i \in DOMAIN u : u[i] \in DIGITS
    /\ \A i \in DOMAIN u : u[i] \in DIGITS \cup {"."}
    /\ \A i, j \in DOMAIN u : (u[i] = "." /\ u[j] = ".") => i = j

\* fastnumbers.isfloat(token): a decimal, with an exponent or without
IsFloat(token) ==
    LET u == Unsigned(token) IN
    \/ IsDecimal(u)
    \/ \E j \in DOMAIN u :
           /\ Upper(u[j]) = "E"
           /\ IsDecimal(SubSeq(u, 1, j - 1))
           /\ IsInt(SubSeq(u, j + 1, Len(u)))

\* the members of a sequence
Range(s) == {s[i] : i \in DOMAIN s}

\* get_token_type(token): re.search(r"^[^\d\W][\w\-\.]*", token) asks for a
\* first character of \w that is no digit, and for nothing of the rest
GetTokenType(token) ==
    LET token_upper == ToUpper(token)
        n == Len(token)
    IN  IF token[1] = BACKTICK /\ token[n] = BACKTICK THEN "<Variable>"
        ELSE IF token = <<"*">> THEN "<*>"
        ELSE IF token_upper \in Range(FUNCTIONS) THEN "<Function>"
        ELSE IF token_upper \in Range(OPERATORS) THEN "<Operator>"
        ELSE IF token_upper \in Range(AGGREGATORS) THEN "<Aggregator>"
        ELSE IF (token[1] = "\"" /\ token[n] = "\"") \/ (token[1] = "'" /\ token[n] = "'")
        THEN IF ParseIso(SubSeq(token, 2, n - 1)) THEN "<Date>" ELSE "<Literal>"
        ELSE IF IsInt(token) THEN "<Integer>"
        ELSE IF IsFloat(token) THEN "<Float>"
        ELSE IF token \in {<<"(">>, <<"[">>} THEN "<LeftParentheses>"
        ELSE IF token \in {<<")">>, <<"]">>} THEN "<RightParentheses>"
        ELSE IF IsWord(token[1]) /\ token[1] \notin DIGITS
        THEN IF token_upper \in {<<"T", "R", "U", "E">>, <<"F", "A", "L", "S", "E">>}
             THEN "<Boolean>"
             ELSE IF token_upper \in {<<"N", "U", "L", "L">>, <<"N", "O", "N", "E">>}
             THEN "<Null>"
             ELSE IF token_upper = <<"A", "N", "D">> THEN "<And>"
             ELSE IF token_upper = <<"O", "R">> THEN "<Or>"
             ELSE IF token_upper = <<"N", "O", "T">> THEN "<Not>"
             ELSE IF token_upper = <<"A", "S">> THEN "<As>"
             ELSE "<Variable>"
        ELSE "<?>"

\* [t.strip() for t in tokens if t.strip() != ""]
Stripped(tokens) ==
    LET kept == SelectSeq(tokens, LAMBDA t : Strip(t) # <<>>)
    IN  [i \in DOMAIN kept |-> Strip(kept[i])]

\* a call on the Tokenizer: its name, the cursor it found, and what it
\* returned (res, with value for a token and kind for a token kind)
TokCall(op, res) == [tok EXCEPT !.op = op, !.res = res, !.was = tok.i,
                                !.value = <<>>, !.kind = ""]

\* Tokenizer.tokenize(): a TokenError leaves tokens the raw fragments and
\* token_types None
Tokenize ==
    /\ tok.made /\ ~tok.tokenized
    /\ LET fixed == FixSpecialChars(SplitFrom(tok.expression, 1, 1), <<>>, "", <<>>) IN
       IF fixed.res = "ok"
       THEN tok' = [TokCall("tokenize", "ok") EXCEPT
                        !.tokenized = TRUE,
                        !.tokens = Stripped(fixed.tokens),
                        !.token_types = [i \in DOMAIN Stripped(fixed.tokens) |->
                                            GetTokenType(Stripped(fixed.tokens)[i])]]
       ELSE tok' = [TokCall("tokenize", "TokenError") EXCEPT
                        !.tokens = SplitFrom(tok.expression, 1, 1)]
    /\ UNCHANGED <<dsvars, relvars, dnf>>

\* TokNext, were the token read at the cursor after it has moved
TokNextAhead ==
    /\ tok.tokenized /\ tok.i <= Len(tok.tokens)
    /\ tok' = IF tok.i + 2 \in DOMAIN tok.tokens
              THEN [TokCall("next", "ok") EXCEPT
                        !.i = tok.i + 1, !.value = tok.tokens[tok.i + 2],
                        !.taken = Append(tok.taken, tok.tokens[tok.i + 2])]
              ELSE [TokCall("next", "IndexError") EXCEPT !.i = tok.i + 1]
    /\ UNCHANGED <<dsvars, relvars, dnf>>

\* Tokenizer.next(): self.i += 1, then self.tokens[self.i - 1]
TokNext ==
    /\ tok.tokenized /\ tok.i <= Len(tok.tokens)
    /\ tok' = IF tok.i + 1 \in DOMAIN tok.tokens
              THEN [TokCall("next", "ok") EXCEPT
                        !.i = tok.i + 1, !.value = tok.tokens[tok.i + 1],
                        !.taken = Append(tok.taken, tok.tokens[tok.i + 1])]
              ELSE [TokCall("next", "IndexError") EXCEPT !.i = tok.i + 1]
    /\ UNCHANGED <<dsvars, relvars, dnf>>

\* Tokenizer.peek() and Tokenizer.next_token_value(): self.tokens[self.i]
Peek(op) ==
    /\ tok.tokenized
    /\ tok' = IF tok.i + 1 \in DOMAIN tok.tokens
              THEN [TokCall(op, "ok") EXCEPT !.value = tok.tokens[tok.i + 1]]
              ELSE TokCall(op, "IndexError")
    /\ UNCHANGED <<dsvars, relvars, dnf>>

\* Tokenizer.has_next()
HasNext ==
    /\ tok.tokenized
    /\ tok' = TokCall("has_next", IF tok.i < Len(tok.tokens) THEN "True" ELSE "False")
    /\ UNCHANGED <<dsvars, relvars, dnf>>

\* Tokenizer.next_token_type()
NextTokenType ==
    /\ tok.tokenized
    /\ tok' = IF tok.i + 1 \in DOMAIN tok.token_types
              THEN [TokCall("next_token_type", "ok") EXCEPT
                        !.kind = tok.token_types[tok.i + 1]]
              ELSE TokCall("next_token_type", "IndexError")
    /\ UNCHANGED <<dsvars, relvars, dnf>>

\* the characters of the short expressions, and longer expressions
Chars == {"a", " ", ",", "\"", "'"}
Samples ==
    {<<"a", ">", "=", "1", " ", "A", "N", "D", " ", "(", "b", "=", "=", "\"", "J", " ", "J", "\"", " ", "O", "R", " ", "c", "=", "=", "'", "A", ",", "B", "'", ")">>,
     <<"\"", ",", " ", ",", "\"">>,
     <<"x", "=", "=", "\"", "a", " ", ",", " ", "'", "b", "'", " ", ",", " ", "c", "\"">>,
     <<BACKTICK, "1", BACKTICK, ",", "*", ",", "Y", "E", "A", "R", "(", "M", "A", "X", ")", ",", "'", "2", "0", "2", "1", "-", "0", "1", "-", "0", "2", "'", ",", "'", "1", "'", ",", "2", "1", ",", "1", ".", "5", ",", "t", "r", "u", "e", ",", "n", "u", "l", "l", ",", "A", "S", ",", "$", ",", "a", "$", ",", "N", "O", "T", ",", "I", "S", " ", "N", "O", "T">>,
     <<"a", "=", "=", "\"", "b">>}

\* Tokenizer(exp)
InitTok ==
    /\ DictSetIdle
    /\ rel = NoRel
    /\ relOut = NoRelation
    /\ relLast = NoRelCall
    /\ dnf = NoDnf
    /\ \E exp \in SeqsUpTo(Chars, MaxExp) \cup Samples :
           tok = [NoTok EXCEPT !.made = TRUE, !.expression = exp]

----------------------------------------------------------------------------
(* DNF filters: the operators of OPERATORS and their evaluation *)

\* a Python list of integers
PyList(s) == [type |-> "list", v |-> s]

\* bool as Python prints it
Bool(b) == IF b THEN "True" ELSE "False"

\* s >= t on lists
RECURSIVE ListGe(_, _)
ListGe(s, t) ==
    IF t = <<>> THEN TRUE
    ELSE IF s = <<>> THEN FALSE
    ELSE IF s[1] # t[1] THEN s[1] > t[1]
    ELSE ListGe(Tail(s), Tail(t))

\* FunctionIn, were it to test its second argument for membership in its first
FunctionInSwapped(x, y) ==
    IF x.type # "list" THEN "TypeError"
    ELSE Bool(y.type = "int" /\ \E i \in DOMAIN x.v : x.v[i] = y.v)

\* function_in(x, y): x in y, a TypeError when y is an integer
FunctionIn(x, y) ==
    IF y.type # "list" THEN "TypeError"
    ELSE Bool(x.type = "int" /\ \E i \in DOMAIN y.v : y.v[i] = x.v)

\* function_contains(x, y): y in x
FunctionContains(x, y) ==
    IF x.type # "list" THEN "TypeError"
    ELSE Bool(y.type = "int" /\ \E i \in DOMAIN x.v : x.v[i] = y.v)

\* OPERATORS[op](x, y)
Operator(op, x, y) ==
    IF op \in {"==", "="} THEN Bool(x.type = y.type /\ x.v = y.v)
    ELSE IF op \in {"!=", "<>"} THEN Bool(~(x.type = y.type /\ x.v = y.v))
    ELSE IF op = ">=" THEN IF x.type # y.type THEN "TypeError"
                           ELSE IF x.type = "int" THEN Bool(x.v >= y.v)
                           ELSE Bool(ListGe(x.v, y.v))
    ELSE IF op = "IN" THEN FunctionIn(x, y)
    ELSE FunctionContains(x, y)

\* a clause on a record: the triples in order, the first False one ending it
RECURSIVE EvaluateClause(_, _)
EvaluateClause(clause, record) ==
    IF clause = <<>> THEN "True"
    ELSE LET t == Head(clause)
             r == Operator(t.op, record[t.attr], t.literal)
         IN  IF r = "True" THEN EvaluateClause(Tail(clause), record) ELSE r

\* a DNF filter on a record: the clauses in order, the first True one ending it
RECURSIVE EvaluateDnf(_, _)
EvaluateDnf(expr, record) ==
    IF expr = <<>> THEN "False"
    ELSE LET r == EvaluateClause(Head(expr), record)
         IN  IF r = "False" THEN EvaluateDnf(Tail(expr), record) ELSE r

\* the records, triples, clauses and filters evaluated
DnfRecords == {[a |-> PyInt(x), b |-> PyList(l)] : x \in {0, 1}, l \in {<<>>, <<0>>, <<0, 1>>}}
Triples ==
    {[attr |-> "a", op |-> "==", literal |-> PyInt(0)],
     [attr |-> "a", op |-> ">=", literal |-> PyInt(1)],
     [attr |-> "a", op |-> "IN", literal |-> PyList(<<0>>)],
     [attr |-> "b", op |-> "CONTAINS", literal |-> PyInt(1)],
     [attr |-> "b", op |-> "IN", literal |-> PyList(<<0>>)],
     [attr |-> "a", op |-> "CONTAINS", literal |-> PyInt(0)]}
Clauses == SeqsUpTo(Triples, 2)

\* the filter is applied to the record
Evaluates ==
    /\ dnf.op = "given"
    /\ dnf' = [dnf EXCEPT !.op = "evaluate", !.res = EvaluateDnf(dnf.expr, dnf.record)]
    /\ UNCHANGED <<dsvars, relvars, tok>>

\* a DNF filter and a record
InitDnf ==
    /\ DictSetIdle
    /\ rel = NoRel
    /\ relOut = NoRelation
    /\ relLast = NoRelCall
    /\ tok = NoTok
    /\ \E expr \in SeqsUpTo(Clauses, MaxClauses), record \in DnfRecords :
           dnf = [op |-> "given", expr |-> expr, record |-> record, res |-> "none"]

----------------------------------------------------------------------------
(* Specifications *)

\* a DictSet and the calls made on it
Next ==
    \/ \E t \in 1..MaxTrav : Iter(t)
    \/ \E t \in 1..MaxTrav : DumbNext(t)
    \/ \E target \in STORAGE_CLASS : Persist(target)
    \/ Count

Spec == Init /\ [][Next]_vars

\* a DictSet and the operations that derive streams from it
NextOps ==
    \/ \E target \in STORAGE_CLASS : Persist(target)
    \/ \E q \in Predicates : Query(q)
    \/ ChildNext
    \/ \E predicate \in Predicates : FilterCall(predicate)
    \/ \E dnf_filters \in Predicates : DnfFilter(dnf_filters)
    \/ Select
    \/ Sample
    \/ Distinct
    \/ \E column \in {"a", "b"} : IGroupBy(column)

SpecOps == Init /\ [][NextOps]_vars

\* a DictSet read by position, persisted, deleted, and the interpreter's exit
NextStore ==
    \/ \E locations \in Locations : GetItemsCall(locations)
    \/ \E target \in STORAGE_CLASS : Live /\ Persist(target)
    \/ Del
    \/ AtExit

SpecStore == Init /\ [][NextStore]_vars

\* the DiskIterator of a DISK DictSet, read by position and asked its length
NextScan ==
    \/ \E locations \in Locations : PositionalScan(locations)
    \/ Length

SpecScan == Init /\ [][NextScan]_vars

\* a Relation and the calls made on it
NextRel ==
    \/ RelMaterialize
    \/ RelDistinct
    \/ RelOutNext

SpecRel == InitRel /\ [][NextRel]_vars

\* a Relation with a schema, built from dictionaries or from tuples, and the
\* calls that derive Relations from it
NextSchema ==
    \/ RelMaterialize
    \/ \E predicate \in TuplePredicates : ApplySelection(predicate)
    \/ \E attributes \in AttributeLists : ApplyProjection(attributes)

SpecSchema == InitSchema /\ [][NextSchema]_vars

\* a Relation with a schema, the Relations distinct() and sample() derive from
\* it, and attributes renamed on either
NextRename ==
    \/ RelDistinct
    \/ RelSample
    \/ \E take \in BOOLEAN : RelSampleNext(take)
    \/ \E target \in {"source", "derived"}, current_name \in Attributes, new_name \in NewNames :
           RenameAttribute(target, current_name, new_name)

SpecRename == InitSchema /\ [][NextRename]_vars

\* the tuples of the Relations that are hashed
HashTuples == {<<0, 0>>, <<-1, 0>>, <<0, 10>>}

\* a DictSet or a Relation, and its content hash
InitHash ==
    \/ Init
    \/ /\ DictSetIdle
       /\ \E data \in SeqsUpTo(HashTuples, MaxRows), lazy \in BOOLEAN :
              /\ (~lazy => data # <<>>)
              /\ rel = RelationInit(data, IF lazy THEN "gen" ELSE "list", FALSE, <<>>)
       /\ relOut = NoRelation
       /\ relLast = NoRelCall
       /\ tok = NoTok
       /\ dnf = NoDnf

NextHash ==
    \/ \E perm \in Perms(Len(Remaining)) : Hash(perm)
    \/ \E perm \in Perms(Len(rel.data)) : RelHash(perm)

SpecHash == InitHash /\ [][NextHash]_vars

\* a Tokenizer: tokenize(), then the cursor
NextTok ==
    \/ Tokenize
    \/ TokNext
    \/ \E op \in {"peek", "next_token_value"} : Peek(op)
    \/ HasNext
    \/ NextTokenType

SpecTok == InitTok /\ [][NextTok]_vars

\* a DNF filter evaluated on a record
NextDnf == Evaluates

SpecDnf == InitDnf /\ [][NextDnf]_vars

----------------------------------------------------------------------------
(* Properties of DictSet.persist, traversal and count (Spec) *)

\* C1: persist(NO_PERSISTANCE) raises InvalidArgument whatever the current
\* storage class, and leaves the storage class and the backing records as
\* they were
C1_PersistNoPersistanceRejected ==
    (last.op = "persist" /\ last.arg = NO_PERSISTANCE)
        => /\ last.res = "InvalidArgument"
           /\ storage_class = last.sc
           /\ Remaining = last.base

C1_Witness ==
    /\ last.op = "persist" /\ last.arg = NO_PERSISTANCE
    /\ last.res = "InvalidArgument"
    /\ storage_class = DISK
    /\ Len(last.base) = 2

\* C2, for target MEMORY: persist(MEMORY) on a stream of another storage class
\* returns True, sets the storage class to MEMORY, and a traversal started
\* after it yields the records the source held before it
C2_PersistDrainsSource ==
    (last.op = "persist" /\ last.arg = MEMORY /\ last.arg # last.sc)
        => /\ last.res = "True"
           /\ storage_class = last.arg
           /\ Remaining = last.base

C4_IndependentTraversals ==
    iterKind \in {"list", "disk"}
        => \A t \in 1..MaxTrav :
               /\ IsPrefix(trav[t].out, input)
               /\ (trav[t].st = "done" => trav[t].out = input)

C4_Witness ==
    /\ storage_class = DISK
    /\ Len(input) = 2 /\ input[1] # input[2]
    /\ trav[1].st = "done" /\ trav[1].out = input
    /\ trav[2].st = "open" /\ trav[2].out = <<input[1]>>

\* C10: count() on a MEMORY or DISK stream returns the number of records the
\* stream holds, also after persist; on a NO_PERSISTANCE stream it returns -1
\* and reads no record
C10_CountIsTrue ==
    last.op = "count"
        => IF last.sc \in {MEMORY, DISK}
           THEN last.n = Len(logical)
           ELSE last.n = -1 /\ Remaining = last.base

----------------------------------------------------------------------------
(* Properties of distinct, igroupby, filter, dnf_filter and query *)

\* the items of s whose hash H no earlier item of s has, in the order of s
FirstIdx(s, H(_)) == {i \in DOMAIN s : \A j \in 1..(i - 1) : H(s[j]) # H(s[i])}

Pick(s, K) ==
    [n \in 1..Cardinality(K) |->
        s[CHOOSE i \in K : Cardinality({j \in K : j <= i}) = n]]

FirstSeen(s, H(_)) == Pick(s, FirstIdx(s, H))

UniqueHashes(s, H(_)) ==
    \A i, j \in DOMAIN s : i # j => H(s[i]) # H(s[j])

\* C5: DictSet.distinct() returns a stream, and the stream yields the first
\* record of each canonical hash, in the order of the source, and no other
C5_DistinctKeepsFirstOfEachHash ==
    last.op = "distinct"
        => /\ last.res = "stream"
           /\ DoDedupe(last.base, {}) = FirstSeen(last.base, CanonicalHash)
           /\ UniqueHashes(DoDedupe(last.base, {}), CanonicalHash)

\* C6: the Relation distinct() returned yields tuples of pairwise different
\* hashes, in the order of the source, and by the time it stops exactly the
\* first tuple of each hash
C6_RelationDistinctKeepsFirstOfEachHash ==
    relOut.made
        => /\ relOut.base = rel.data
           /\ IsPrefix(relOut.out, FirstSeen(relOut.base, TupleHash))
           /\ UniqueHashes(relOut.out, TupleHash)
           /\ (relOut.st = "done" => relOut.out = FirstSeen(relOut.base, TupleHash))

C6_Witness ==
    /\ relOut.made /\ relOut.st = "done"
    /\ Len(relOut.base) = 3
    /\ relOut.base[1] # relOut.base[2]
    /\ relOut.base[3] = relOut.base[1]
    /\ relOut.out = <<relOut.base[1], relOut.base[2]>>

RECURSIVE MemberCount(_)
MemberCount(gs) ==
    IF gs = <<>> THEN 0 ELSE Len(Head(gs).members) + MemberCount(Tail(gs))

\* C7, for igroupby on a MEMORY stream that ran to its end: the groups' member
\* counts sum to the number of records, and every position 0..N-1 is in
\* exactly one group, once
C7_GroupsPartitionPositions ==
    (last.op = "igroupby" /\ last.sc = MEMORY /\ last.res = "ok")
        => LET N == Len(last.base)
           IN  /\ MemberCount(groups) = N
               /\ \A p \in 0..(N - 1) :
                      Cardinality({gj \in {<<g, j>> : g \in DOMAIN groups, j \in 1..N} :
                                      /\ gj[2] \in DOMAIN groups[gj[1]].locs
                                      /\ groups[gj[1]].locs[gj[2]] = p}) = 1

\* C8, for igroupby on a MEMORY stream that ran to its end: one group per key
\* of the index, in ascending key order, each holding the records of its key
\* and no other, in their original order
C8_OneGroupPerKey ==
    (last.op = "igroupby" /\ last.sc = MEMORY /\ last.res = "ok")
        => LET rows == last.base
               keys == {ValueToInt(rows[i][last.col]) :
                           i \in {k \in DOMAIN rows : last.col \in DOMAIN rows[k]}}
           IN  /\ Len(groups) = Cardinality(keys)
               /\ \A g \in DOMAIN groups :
                      /\ Len(groups[g].members) = Len(groups[g].locs)
                      /\ \A j \in DOMAIN groups[g].locs :
                             /\ groups[g].members[j] = rows[groups[g].locs[j] + 1]
                             /\ last.col \in DOMAIN groups[g].members[j]
                             /\ ValueToInt(groups[g].members[j][last.col])
                                    = ValueToInt(groups[g].key)
                             /\ (j > 1 => groups[g].locs[j - 1] < groups[g].locs[j])
               /\ \A g, h \in DOMAIN groups :
                      g < h => ValueToInt(groups[g].key) < ValueToInt(groups[h].key)

\* C9: filter, dnf_filter and query each return a stream, and the stream
\* yields the source's records that satisfy the predicate, in source order,
\* and no other
C9_FilterYieldsMatchingRecords ==
    /\ last.op \in {"filter", "dnf_filter", "query"} => last.res = "stream"
    /\ (child.kind \in {"list", "disk"} \/ child.st = "done")
           => ChildRecords = Inner(child.base, child.pred)

----------------------------------------------------------------------------
(* Properties of get_items and of the DiskIterator *)

\* the positions p hold in a sequence's 1-based domain
Asked(locations) == {locations[j] + 1 : j \in DOMAIN locations}

Ascending(locations) ==
    \A j \in DOMAIN locations : j > 1 => locations[j - 1] < locations[j]

\* C11: get_items on a NO_PERSISTANCE stream nothing has read from, asked for
\* positions of the stream in ascending order, ends normally and yields the
\* records at those positions, in stream order, and no other
C11_GetItemsYieldsRequested ==
    (/\ last.op = "get_items" /\ last.sc = NO_PERSISTANCE
     /\ last.base = input
     /\ Ascending(last.locs)
     /\ \A j \in DOMAIN last.locs : last.locs[j] < Len(last.base))
        => /\ last.res = "ok"
           /\ last.items = Pick(last.base, Asked(last.locs))

\* C12: a full scan of a DiskIterator built from any record sequence, the empty
\* one included, raises nothing but StopIteration and yields the constructor's
\* records, decoded equal, in order, on every scan
C12_FullScanRoundTrip ==
    iterKind = "disk"
        => \A t \in 1..MaxTrav :
               /\ trav[t].st # "error"
               /\ IsPrefix(trav[t].out, input)
               /\ (trav[t].st = "done" => trav[t].out = input)

\* C13: _inner_reader with a non-empty set of locations, all of them stored,
\* yields the records at those locations, each once, in ascending order, and
\* has read no line after the one at the largest location
C13_PositionalScanStopsAtMax ==
    (/\ last.op = "_inner_reader"
     /\ last.locs # <<>>
     /\ \A j \in DOMAIN last.locs : last.locs[j] < Len(last.base))
        => /\ last.res = "ok"
           /\ last.items = Pick(last.base, Asked(last.locs))
           /\ last.n = SeqMax(last.locs) + 1

C13_Witness ==
    /\ last.op = "_inner_reader" /\ last.res = "ok"
    /\ Len(last.base) = 2 /\ last.base[1] # last.base[2]
    /\ last.locs = <<0>>
    /\ last.items = <<last.base[1]>>
    /\ last.n = 1

\* C14: len() of a DiskIterator built from N records is N, the number of
\* records a full scan yields
C14_LengthIsRecordCount ==
    last.op = "__len__"
        => /\ last.n = Len(input)
           /\ last.n = Len(FullScan(file))

\* C15: once the DictSet that owns a DiskIterator is deleted, or persisted to
\* another storage class, the file is gone; and the removal at exit never fails
C15_FileRemovedOnDisposal ==
    /\ (/\ store.made
        /\ \/ last.op = "__del__"
           \/ (last.op = "persist" /\ last.res = "True" /\ last.sc = DISK))
           => ~store.exists
    /\ (last.op = "atexit" => last.res = "ok")

----------------------------------------------------------------------------
(* Properties of the Relation's schema, projection and materialize *)

\* the value a dictionary has for key k, None when it has none
ValueOf(row, k) ==
    LET S == {row[n].v : n \in {m \in DOMAIN row : row[m].k = k}}
    IN  IF S = {} THEN PyNone ELSE CHOOSE x \in S : TRUE

\* the attribute names of a schema, in order
Names(schema) == [j \in DOMAIN schema |-> schema[j].k]

\* C16: a Relation built from a list of dictionaries has the schema of the
\* first dictionary alone (its keys in order, each with its type), and one
\* tuple per dictionary, the first included, as long as the schema, holding
\* at position j the dictionary's value for attribute j, None when it has none
C16_TuplesFollowFirstRecordSchema ==
    (rel.kind = "list" /\ rel.givenDicts)
        => /\ Names(rel.schema) = Names(rel.given[1])
           /\ \A j \in DOMAIN rel.schema :
                  rel.schema[j].v = [type |-> PythonType(rel.given[1][j].v.type)]
           /\ Len(rel.data) = Len(rel.given)
           /\ \A i \in DOMAIN rel.data :
                  /\ Len(rel.data[i]) = Len(rel.schema)
                  /\ \A j \in DOMAIN rel.schema :
                         rel.data[i][j] = ValueOf(rel.given[i], rel.schema[j].k)

C16_Witness ==
    /\ rel.kind = "list" /\ rel.givenDicts
    /\ rel.given = <<(<<[k |-> "a", v |-> PyInt(0)]>>), (<<[k |-> "b", v |-> PyStr(0)]>>)>>
    /\ rel.data = <<(<<PyInt(0)>>), (<<PyNone>>)>>
    /\ Names(rel.schema) = <<"a">>
    /\ relLast.op = "materialize"

\* C17: in a Relation built from a list of dictionaries, a column for which a
\* dictionary after the first has a value of another type than the first's
\* has the type OTHER in the schema
C17_ConflictWidensDomain ==
    (rel.kind = "list" /\ rel.givenDicts)
        => \A j \in DOMAIN rel.schema :
               (\E i \in 2..Len(rel.given) :
                    \E n \in DOMAIN rel.given[i] :
                        /\ rel.given[i][n].k = rel.schema[j].k
                        /\ rel.given[i][n].v.type # ValueOf(rel.given[1], rel.schema[j].k).type)
                   => rel.schema[j].v.type = "OTHER"

\* C18: the schema of the Relation apply_selection or apply_projection returns
\* has, for every attribute taken from the source, the type alone, and the
\* source's schema is as it was
C18_DerivedSchemaHasTypeOnly ==
    relLast.op \in {"selection", "projection"}
        => /\ \A j \in DOMAIN relOut.schema :
                  (\E m \in DOMAIN relLast.was.schema :
                       relLast.was.schema[m].k = relOut.schema[j].k)
                      => DOMAIN relOut.schema[j].v = {"type"}
           /\ rel.schema = relLast.was.schema

\* the requested attributes the source has, each once, in requested order
Kept(attributes, schema) ==
    Pick(attributes,
         {i \in DOMAIN attributes :
             /\ \E m \in DOMAIN schema : schema[m].k = attributes[i]
             /\ \A h \in 1..(i - 1) : attributes[h] # attributes[i]})

\* C19: apply_projection over tuples returns the schema of the requested
\* attributes the source has, in requested order, and one tuple per source
\* tuple holding at position j the source's value of result attribute j
C19_ProjectionFollowsRequest ==
    (relLast.op = "projection" /\ ~relLast.was.dicts)
        => LET src_schema == relLast.was.schema
               want == Kept(relLast.attributes, src_schema)
           IN  /\ Names(relOut.schema) = want
               /\ Len(relOut.out) = Len(relLast.was.data)
               /\ \A i \in DOMAIN relOut.out :
                      /\ Len(relOut.out[i]) = Len(want)
                      /\ \A j \in DOMAIN want :
                             \E m \in DOMAIN src_schema :
                                 /\ src_schema[m].k = want[j]
                                 /\ relOut.out[i][j] = relLast.was.data[i][m]

\* C20: materialize leaves a list in data; called on a Relation whose data is
\* a list already, it leaves the tuples and the schema as they are; called on
\* a generator, it leaves the generator's rows, in order
C20_MaterializeIdempotent ==
    relLast.op = "materialize"
        => /\ ~rel.lazy
           /\ (~relLast.was.lazy => rel = relLast.was)
           /\ Len(rel.data) = Len(relLast.was.data)
           /\ (~relLast.was.dicts => /\ rel.data = relLast.was.data
                                      /\ rel.schema = relLast.was.schema)
           /\ (relLast.was.dicts =>
                  \A i \in DOMAIN rel.data :
                      rel.data[i] = [j \in DOMAIN rel.schema |->
                                        ValueOf(relLast.was.data[i], rel.schema[j].k)])

C20_Witness ==
    /\ relLast.op = "materialize" /\ relLast.again
    /\ rel.kind = "gen" /\ rel.givenDicts
    /\ Len(rel.given) = 2
    /\ Len(rel.data) = 2 /\ rel.data[1] # rel.data[2]
    /\ Len(rel.schema) = 2

----------------------------------------------------------------------------
(* Properties of the content hash (SpecHash) *)

\* C21: the content hash of a DictSet, and of a Relation, equals the content
\* hash of one holding the same records (tuples) in any other order; a hash
\* is not computed only for a DISK DictSet with no records, whose file cannot
\* be read
C21_HashPermutationInvariant ==
    /\ last.op = "__hash__" =>
           /\ last.other.res = last.res
           /\ last.other.n = last.n
           /\ last.res = "ValueError" => (last.sc = DISK /\ last.base = <<>>)
    /\ relLast.op = "__hash__" => relLast.other = relLast.n

\* both hashes were taken over records in different orders
C21_Witness ==
    /\ last.op = "__hash__" /\ last.res = "ok" /\ last.sc = DISK
    /\ Len(last.base) = 2 /\ last.base[1] # last.base[2]
    /\ last.n # DictSetHash(<<last.base[1]>>)

----------------------------------------------------------------------------
(* Properties of the Tokenizer (SpecTok) *)

\* the quoted literals of an expression as <<first, last>> positions, a quote
\* character opening a literal that the next same character closes; last is
\* 0 for a literal that is not closed
RECURSIVE Literals(_, _, _)
Literals(exp, p, start) ==
    IF p > Len(exp) THEN (IF start = 0 THEN {} ELSE {<<start, 0>>})
    ELSE IF start = 0
    THEN Literals(exp, p + 1, IF exp[p] \in QUOTES THEN p ELSE 0)
    ELSE IF exp[p] = exp[start] THEN {<<start, p>>} \cup Literals(exp, p + 1, 0)
    ELSE Literals(exp, p + 1, start)

Contains(token, text) ==
    \E k \in 0..(Len(token) - Len(text)) : SubSeq(token, k + 1, k + Len(text)) = text

RECURSIVE Concat(_)
Concat(tokens) == IF tokens = <<>> THEN <<>> ELSE Head(tokens) \o Concat(Tail(tokens))

Unspaced(text) == SelectSeq(text, LAMBDA c : ~IsSpace(c))

\* C22: after tokenize() of an expression whose quoted literals are all
\* closed, every literal is found whole in one token, and the tokens in order
\* spell the expression, spaces aside
C22_QuoteRepairKeepsLiterals ==
    (tok.tokenized /\ \A l \in Literals(tok.expression, 1, 0) : l[2] # 0)
        => /\ \A l \in Literals(tok.expression, 1, 0) :
                  \E i \in DOMAIN tok.tokens :
                      Contains(tok.tokens[i], SubSeq(tok.expression, l[1], l[2]))
           /\ Unspaced(Concat(tok.tokens)) = Unspaced(tok.expression)

\* C23: tokenize() of an expression whose fragments run out while quote repair
\* is still looking for a closing quote fails with TokenError
C23_UnclosedQuoteRaisesTokenError ==
    (tok.op = "tokenize"
        /\ FixSpecialChars(SplitFrom(tok.expression, 1, 1), <<>>, "", <<>>).open # "")
        => tok.res = "TokenError"

\* the kind of a token by the documented precedence, a token being shaped
\* like an identifier when all of it is: a letter or underscore, then letters,
\* digits, hyphens, underscores and dots
DocumentedKind(token) ==
    LET token_upper == ToUpper(token)
        n == Len(token)
    IN  IF token[1] = BACKTICK /\ token[n] = BACKTICK THEN "<Variable>"
        ELSE IF token = <<"*">> THEN "<*>"
        ELSE IF token_upper \in Range(FUNCTIONS) THEN "<Function>"
        ELSE IF token_upper \in Range(OPERATORS) THEN "<Operator>"
        ELSE IF token_upper \in Range(AGGREGATORS) THEN "<Aggregator>"
        ELSE IF (token[1] = "\"" /\ token[n] = "\"") \/ (token[1] = "'" /\ token[n] = "'")
        THEN IF ParseIso(SubSeq(token, 2, n - 1)) THEN "<Date>" ELSE "<Literal>"
        ELSE IF IsInt(token) THEN "<Integer>"
        ELSE IF IsFloat(token) THEN "<Float>"
        ELSE IF token \in {<<"(">>, <<"[">>} THEN "<LeftParentheses>"
        ELSE IF token \in {<<")">>, <<"]">>} THEN "<RightParentheses>"
        ELSE IF /\ IsWord(token[1]) /\ token[1] \notin DIGITS
                /\ \A i \in DOMAIN token : IsWord(token[i]) \/ token[i] \in {"-", "."}
        THEN IF token_upper \in {<<"T", "R", "U", "E">>, <<"F", "A", "L", "S", "E">>}
             THEN "<Boolean>"
             ELSE IF token_upper \in {<<"N", "U", "L", "L">>, <<"N", "O", "N", "E">>}
             THEN "<Null>"
             ELSE IF token_upper = <<"A", "N", "D">> THEN "<And>"
             ELSE IF token_upper = <<"O", "R">> THEN "<Or>"
             ELSE IF token_upper = <<"N", "O", "T">> THEN "<Not>"
             ELSE IF token_upper = <<"A", "S">> THEN "<As>"
             ELSE "<Variable>"
        ELSE "<?>"


\* C24: the kind tokenize() gives each token is the kind of the documented
\* precedence
C24_ClassificationPrecedence ==
    tok.tokenized =>
        \A i \in DOMAIN tok.tokens : tok.token_types[i] = DocumentedKind(tok.tokens[i])

\* C25: after tokenize() the tokens and their kinds are as many; the tokens
\* next() has returned are the first tokens in order, one per call; next()
\* moves the cursor by one and the other calls leave it; has_next() is True
\* exactly while the cursor stands before a token
C25_CursorContract ==
    tok.tokenized =>
        /\ Len(tok.tokens) = Len(tok.token_types)
        /\ tok.taken = SubSeq(tok.tokens, 1, Len(tok.taken))
        /\ tok.i <= Len(tok.tokens) => Len(tok.taken) = tok.i
        /\ tok.op = "next" =>
               /\ tok.i = tok.was + 1
               /\ tok.res = "ok" <=> tok.was < Len(tok.tokens)
               /\ tok.res = "ok" => tok.value = tok.tokens[tok.i]
        /\ tok.op \in {"peek", "next_token_value", "has_next", "next_token_type"} =>
               tok.i = tok.was
        /\ tok.op = "has_next" => (tok.res = "True" <=> tok.i < Len(tok.tokens))
        /\ (tok.op \in {"peek", "next_token_value"} /\ tok.res = "ok") =>
               tok.value = tok.tokens[tok.i + 1]
        /\ (tok.op = "next_token_type" /\ tok.res = "ok") =>
               tok.kind = tok.token_types[tok.i + 1]

\* every token was taken by next(), and has_next() then said False
C25_Witness ==
    /\ tok.tokenized /\ Len(tok.tokens) >= 3
    /\ tok.taken = tok.tokens
    /\ tok.op = "has_next" /\ tok.res = "False"

----------------------------------------------------------------------------
(* Properties of DNF filters (SpecDnf) *)

\* a triple on a record, IN asking whether the record's value is a member of
\* the literal and CONTAINS whether the literal is a member of the record's
\* value
Holds(t, record) ==
    LET x == record[t.attr]
        y == t.literal
    IN  IF t.op = "IN" THEN x.type = "int" /\ \E i \in DOMAIN y.v : y.v[i] = x.v
        ELSE IF t.op = "CONTAINS" THEN \E i \in DOMAIN x.v : x.v[i] = y.v
        ELSE IF t.op = "==" THEN x = y
        ELSE x.v >= y.v

\* the operands of a triple have the types its operator is defined for
Typed(t, record) ==
    IF t.op = "IN" THEN t.literal.type = "list"
    ELSE IF t.op = "CONTAINS" THEN record[t.attr].type = "list" /\ t.literal.type = "int"
    ELSE record[t.attr].type = t.literal.type

\* C26: a DNF filter whose triples are typed is true on a record exactly when
\* one of its clauses has all of its triples true on the record
C26_DnfIsAnyOfAll ==
    (dnf.op = "evaluate"
        /\ \A c \in DOMAIN dnf.expr : \A j \in DOMAIN dnf.expr[c] :
               Typed(dnf.expr[c][j], dnf.record))
        => dnf.res = Bool(\E c \in DOMAIN dnf.expr : \A j \in DOMAIN dnf.expr[c] :
                              Holds(dnf.expr[c][j], dnf.record))

\* a filter of two clauses, the first false by its second triple and the
\* second true by IN and CONTAINS
C26_Witness ==
    /\ dnf.op = "evaluate" /\ dnf.res = "True"
    /\ dnf.record = [a |-> PyInt(0), b |-> PyList(<<0, 1>>)]
    /\ dnf.expr = <<
           <<[attr |-> "a", op |-> "==", literal |-> PyInt(0)],
             [attr |-> "a", op |-> ">=", literal |-> PyInt(1)]>>,
           <<[attr |-> "a", op |-> "IN", literal |-> PyList(<<0>>)],
             [attr |-> "b", op |-> "CONTAINS", literal |-> PyInt(1)]>> >>

----------------------------------------------------------------------------
(* Laziness of the deriving operations (SpecOps) *)

\* C27: filter, dnf_filter, query, select and sample return a stream and have
\* read no record of the source by the time they return
C27_DerivingCallsAreLazy ==
    last.op \in {"filter", "dnf_filter", "query", "select", "sample"}
        => (last.res = "stream" /\ last.n = 0)

----------------------------------------------------------------------------
(* get_items across storage classes (SpecStore) *)

\* C29: get_items on a MEMORY stream and on a DISK stream that hold the same
\* records, asked for positions of the stream, yield the same: the records at
\* the positions in the order asked, which is what indexing the list of a
\* MEMORY stream gives, and nothing when no position is asked for
C29_GetItemsSameOnMemoryAndDisk ==
    (/\ last.op = "get_items" /\ last.sc \in {MEMORY, DISK}
     /\ \A j \in DOMAIN last.locs : last.locs[j] < Len(last.base))
        => /\ last.res = "ok"
           /\ last.items = [j \in DOMAIN last.locs |-> last.base[last.locs[j] + 1]]

----------------------------------------------------------------------------
(* Properties of rename_attribute (SpecRename) *)

\* C28: rename_attribute leaves every attribute at its position in the schema,
\* the renamed one under its new name
C28_RenameKeepsPosition ==
    (relLast.op = "rename_attribute" /\ relLast.res = "ok" /\ relLast.target = "source")
        => Names(rel.schema) =
               [j \in DOMAIN relLast.was.schema |->
                   IF relLast.was.schema[j].k = relLast.attributes[1]
                   THEN relLast.attributes[2]
                   ELSE relLast.was.schema[j].k]

\* C30: rename_attribute on the Relation distinct() or sample() returned
\* leaves the schema of the source as it was, and rename_attribute on the
\* source leaves the schema of the Relation returned as it was
C30_DerivedOwnsSchema ==
    (relLast.op = "rename_attribute" /\ relOut.made /\ relOut.op \in {"distinct", "sample"})
        => /\ relLast.target = "derived" => rel.schema = relLast.was.schema
           /\ relLast.target = "source" => relOut.schema = relLast.wasOut

====
